---- MODULE Spec2Model ----
(***************************************************************************)
(* Model of the talking-points recommendation engine of                    *)
(* src/functions/ai_talking_points.py (class TalkingPointsGenerator).      *)
(*                                                                         *)
(* One behaviour is one call generate_talking_points(student_data) on a    *)
(* freshly constructed generator: Init is the state on entry, and every    *)
(* action is one statement group of the method, in program order (pc).     *)
(*                                                                         *)
(* Representation.                                                         *)
(*   - A Python dict is a TLA+ function whose DOMAIN is its key set, so a  *)
(*     missing key is a key outside DOMAIN and dict.get is Get below.      *)
(*   - A Python list is a sequence.  The subjects mapping, whose iteration *)
(*     order is its insertion order, is the sequence of its items()        *)
(*     pairs <<subject, data>> (subject names pairwise distinct).          *)
(*   - Floats are scaled integers: currentGPA and the GPA thresholds are   *)
(*     in hundredths (3.7 is 370), attendanceRate is in hundredths         *)
(*     (0.98 is 98), averageScore is in whole percent.                     *)
(*   - The content string of a talking point (an f-string over the same    *)
(*     values that supporting_data echoes) is not carried; the read of     *)
(*     personalInfo.firstName that it performs is (RaisesKeyError).        *)
(***************************************************************************)
EXTENDS Integers, Sequences, FiniteSets, TLC

VARIABLES
    grade_level_expectations, \* self.grade_level_expectations
    student_data,             \* the argument of generate_talking_points
    pc,                       \* position in generate_talking_points
    all_talking_points,       \* local list all_talking_points
    categorized_points,       \* local dict categorized_points
    meeting_summary,          \* local dict meeting_summary
    result,                   \* the returned dict (NoValue before the return)
    exception,                \* the exception that ended the call (NoValue if none)
    calls,                    \* the earlier calls on this generator instance, oldest
                              \* first: what each was given and how it ended
    agenda                    \* the lines of the string that generate_meeting_agenda
                              \* returned for result (<< >> before it has run)

vars == <<grade_level_expectations, student_data, pc, all_talking_points,
          categorized_points, meeting_summary, result, exception, calls, agenda>>

(***************************************************************************)
(* Bounds of the explored inputs.                                          *)
(***************************************************************************)
\* a varied profile differs from a base profile in at most this many fields
MaxDeviations == 1
\* most subjects of a subjects mapping that is tried as a variation
MaxSubjects == 1
\* most earlier calls on one generator instance
MaxCalls == 2

\* {} of Python
EmptyDict == [k \in {} |-> 0]

\* the value of a dict-valued local that is not bound yet (a dict with no key)
NoValue == EmptyDict

\* d.get(k, default)
Get(d, k, default) == IF k \in DOMAIN d THEN d[k] ELSE default

\* d with d[k] = v
DictSet(d, k, v) == (k :> v) @@ d

\* d without the key k
DictDel(d, k) == [x \in DOMAIN d \ {k} |-> d[x]]

(***************************************************************************)
(* The input profiles: three base profiles, every profile assembled        *)
(* section by section from the base profiles, and every profile that       *)
(* differs from a base profile in at most MaxDeviations fields (a field is *)
(* varied by giving it another value or by removing its key).              *)
(***************************************************************************)

\* the first n of a fixed pool of list items
Items(n) == SubSeq(<<"alpha", "beta", "gamma", "delta">>, 1, n)

\* names of generate_synthetic_data.py, and one in capitals
SubjectNames == <<"social_studies", "mathematics", "MATH", "english">>

\* the per-subject records tried: every branch of the subject analysis,
\* the score on both sides of 75, and a record with no key at all
SubjectDatas ==
    { [currentGrade |-> "A", averageScore |-> 91, trend |-> "improving"],
      [currentGrade |-> "C", averageScore |-> 74, trend |-> "declining"],
      [currentGrade |-> "C", averageScore |-> 75, trend |-> "declining"],
      [currentGrade |-> "B", averageScore |-> 82, trend |-> "stable"],
      EmptyDict }

\* the subjects mappings of exactly n subjects, named SubjectNames[1..n] in this order
RECURSIVE SubjectsOfLen(_)
SubjectsOfLen(n) ==
    IF n = 0 THEN { <<>> }
    ELSE { Append(s, <<SubjectNames[n], d>>) : s \in SubjectsOfLen(n - 1), d \in SubjectDatas }

SubjectsValues == UNION { SubjectsOfLen(n) : n \in 0..MaxSubjects }

\* the values tried for a list-valued field (only its emptiness is tested)
ListValues == { Items(0), Items(2) }

\* the values tried for sports and for clubs (their lengths are added)
ActivityValues == { Items(0), Items(1), Items(2) }

Levels == {"high", "medium", "low"}

Ratings == {"excellent", "good", "needs_improvement"}

\* a profile in which no optional rule fires
NeutralProfile ==
    [ personalInfo |-> [firstName |-> "Asha", lastName |-> "Rao", grade |-> "5"],
      academicProfile |->
          [currentGPA |-> 350,
           subjects |-> << <<"math", [currentGrade |-> "B", averageScore |-> 82, trend |-> "stable"]>> >>,
           strengths |-> <<>>, areasForImprovement |-> <<>>, learningStyle |-> "visual"],
      behavioralProfile |->
          [participation |-> [level |-> "medium"],
           socialSkills |-> [peerInteraction |-> "good", teamwork |-> "good"],
           attendance |-> [attendanceRate |-> 95, tardyCount |-> 2]],
      extracurricular |->
          [sports |-> Items(1), clubs |-> <<>>, achievements |-> <<>>, volunteerHours |-> 4],
      parentEngagement |->
          [communicationFrequency |-> "medium", homeworkSupport |-> "good", concernsRaised |-> <<>>],
      goals |-> [shortTerm |-> <<>>, longTerm |-> <<>>, parentGoals |-> <<>>],
      teacherNotes |-> [recommendedActions |-> <<>>, motivationLevel |-> "medium"] ]

\* a profile in which every evaluator emits its largest number of points
RichProfile ==
    [ personalInfo |-> [firstName |-> "Ravi", lastName |-> "Nair", grade |-> "4"],
      academicProfile |->
          [currentGPA |-> 290,
           subjects |-> << <<"math", [currentGrade |-> "A", averageScore |-> 91, trend |-> "improving"]>>,
                           <<"social_studies", [currentGrade |-> "C", averageScore |-> 70, trend |-> "declining"]>> >>,
           strengths |-> Items(1), areasForImprovement |-> Items(1), learningStyle |-> "kinesthetic"],
      behavioralProfile |->
          [participation |-> [level |-> "high"],
           socialSkills |-> [peerInteraction |-> "excellent", teamwork |-> "excellent"],
           attendance |-> [attendanceRate |-> 99, tardyCount |-> 7]],
      extracurricular |->
          [sports |-> Items(2), clubs |-> Items(1), achievements |-> Items(1), volunteerHours |-> 12],
      parentEngagement |->
          [communicationFrequency |-> "high", homeworkSupport |-> "excellent", concernsRaised |-> Items(1)],
      goals |-> [shortTerm |-> Items(1), longTerm |-> Items(1), parentGoals |-> Items(1)],
      teacherNotes |-> [recommendedActions |-> Items(1), motivationLevel |-> "low"] ]

\* a profile with the identity fields only: every optional section is missing
MinimalProfile ==
    [ personalInfo |-> [firstName |-> "Mira", lastName |-> "Das", grade |-> "3"] ]

BaseProfiles == {NeutralProfile, RichProfile, MinimalProfile}

\* stands for "the section itself" in Fields
WholeSection == "*"

Sections == <<"personalInfo", "academicProfile", "behavioralProfile", "extracurricular",
              "parentEngagement", "goals", "teacherNotes">>

\* the fields that are varied: dict path (section, key) and the values tried
\* (every field is also tried removed; a WholeSection entry removes the section)
Fields ==
    [ i \in 1..Len(Sections) |-> [section |-> Sections[i], key |-> WholeSection, values |-> {}] ] \o
    << [section |-> "personalInfo", key |-> "firstName", values |-> {}],
       [section |-> "personalInfo", key |-> "lastName", values |-> {}],
       [section |-> "personalInfo", key |-> "grade", values |-> {"3", "4", "5", "6", "7"}],
       [section |-> "academicProfile", key |-> "currentGPA",
        values |-> {300, 319, 320, 349, 350, 370}],
       [section |-> "academicProfile", key |-> "subjects", values |-> SubjectsValues],
       [section |-> "academicProfile", key |-> "strengths", values |-> ListValues],
       [section |-> "academicProfile", key |-> "areasForImprovement", values |-> ListValues],
       [section |-> "behavioralProfile", key |-> "participation",
        values |-> { [level |-> l] : l \in Levels }],
       [section |-> "behavioralProfile", key |-> "socialSkills",
        values |-> { [peerInteraction |-> a, teamwork |-> b] : a, b \in Ratings }
                   \cup { [teamwork |-> "needs_improvement"], [peerInteraction |-> "excellent"] }],
       [section |-> "behavioralProfile", key |-> "attendance",
        values |-> { [attendanceRate |-> r, tardyCount |-> t] : r \in {89, 90, 97, 98}, t \in {5, 6} }
                   \cup { [tardyCount |-> 6], [attendanceRate |-> 98] }],
       [section |-> "extracurricular", key |-> "sports", values |-> ActivityValues],
       [section |-> "extracurricular", key |-> "clubs", values |-> ActivityValues],
       [section |-> "extracurricular", key |-> "achievements", values |-> ListValues],
       [section |-> "extracurricular", key |-> "volunteerHours", values |-> {10, 11}],
       [section |-> "parentEngagement", key |-> "communicationFrequency", values |-> Levels],
       [section |-> "parentEngagement", key |-> "homeworkSupport", values |-> Ratings],
       [section |-> "parentEngagement", key |-> "concernsRaised", values |-> ListValues],
       [section |-> "goals", key |-> "shortTerm", values |-> ListValues],
       [section |-> "goals", key |-> "longTerm", values |-> ListValues],
       [section |-> "teacherNotes", key |-> "recommendedActions", values |-> ListValues],
       [section |-> "teacherNotes", key |-> "motivationLevel", values |-> Levels] >>

\* sd with sd[section][key] = v (the section is created when it is missing)
SetField(sd, section, key, v) ==
    DictSet(sd, section, DictSet(Get(sd, section, EmptyDict), key, v))

\* sd without sd[section][key]; with key = WholeSection, sd without sd[section]
RemoveField(sd, section, key) ==
    IF section \notin DOMAIN sd THEN sd
    ELSE IF key = WholeSection THEN DictDel(sd, section)
    ELSE DictSet(sd, section, DictDel(sd[section], key))

\* the profiles got from sd by varying at most k of the fields Fields[i..]
RECURSIVE Vary(_, _, _)
Vary(sd, i, k) ==
    IF i > Len(Fields) \/ k = 0 THEN {sd}
    ELSE LET f == Fields[i]
             changed == { SetField(sd, f.section, f.key, v) : v \in f.values }
                        \cup { RemoveField(sd, f.section, f.key) }
         IN  Vary(sd, i + 1, k) \cup UNION { Vary(p, i + 1, k - 1) : p \in changed }

VariedProfiles == UNION { Vary(b, 1, MaxDeviations) : b \in BaseProfiles }

\* the profile whose section s is that of the base profile choice[s]
\* (no section s when that base profile has none)
Compose(choice) ==
    [ s \in { t \in DOMAIN choice : t \in DOMAIN choice[t] } |-> choice[s][s] ]

ComposedProfiles ==
    { Compose(choice) : choice \in [ {Sections[i] : i \in 1..Len(Sections)} -> BaseProfiles ] }

Profiles == ComposedProfiles \cup VariedProfiles

(***************************************************************************)
(* The talking points and the five rule evaluators.                        *)
(***************************************************************************)

\* TalkingPoint(category, priority, title, content, supporting_data, action_required)
TalkingPoint(category, priority, title, supporting_data, action_required) ==
    [ category |-> category, priority |-> priority, title |-> title,
      supporting_data |-> supporting_data, action_required |-> action_required ]

\* mutant of InitialExpectations: grade 3 is excellent from a GPA of 3.4 on
expectations_excellent_below_350 ==
    [ g \in {"3", "4", "5", "6"} |->
        CASE g = "3" -> [gpa_excellent |-> 340, gpa_good |-> 300, attendance_good |-> 95]
          [] g = "4" -> [gpa_excellent |-> 360, gpa_good |-> 310, attendance_good |-> 95]
          [] g = "5" -> [gpa_excellent |-> 370, gpa_good |-> 320, attendance_good |-> 96]
          [] g = "6" -> [gpa_excellent |-> 380, gpa_good |-> 330, attendance_good |-> 96] ]

\* mutant of InitialExpectations: grade 6 is good only from a GPA of 3.6 on
expectations_good_above_350 ==
    [ g \in {"3", "4", "5", "6"} |->
        CASE g = "3" -> [gpa_excellent |-> 350, gpa_good |-> 300, attendance_good |-> 95]
          [] g = "4" -> [gpa_excellent |-> 360, gpa_good |-> 310, attendance_good |-> 95]
          [] g = "5" -> [gpa_excellent |-> 370, gpa_good |-> 320, attendance_good |-> 96]
          [] g = "6" -> [gpa_excellent |-> 380, gpa_good |-> 360, attendance_good |-> 96] ]

\* TalkingPointsGenerator.__init__: the grade expectation table
\* (gpa thresholds in hundredths, attendance_good in hundredths)
InitialExpectations ==
    [ g \in {"3", "4", "5", "6"} |->
        CASE g = "3" -> [gpa_excellent |-> 350, gpa_good |-> 300, attendance_good |-> 95]
          [] g = "4" -> [gpa_excellent |-> 360, gpa_good |-> 310, attendance_good |-> 95]
          [] g = "5" -> [gpa_excellent |-> 370, gpa_good |-> 320, attendance_good |-> 96]
          [] g = "6" -> [gpa_excellent |-> 380, gpa_good |-> 330, attendance_good |-> 96] ]

\* The cased characters of the subject names: the ASCII letters.  (A string
\* of this module holds ASCII only, so str.title() is modelled on ASCII.)
LowerLetters == "abcdefghijklmnopqrstuvwxyz"
UpperLetters == "ABCDEFGHIJKLMNOPQRSTUVWXYZ"

\* the place of the character c in alphabet, 0 when it is not there
letter_index(c, alphabet) ==
    IF \E i \in 1..Len(alphabet) : SubSeq(alphabet, i, i) = c
    THEN CHOOSE i \in 1..Len(alphabet) : SubSeq(alphabet, i, i) = c
    ELSE 0

\* the letters of an alphabet, as a set of one-character strings
letters_of(alphabet) == { SubSeq(alphabet, i, i) : i \in 1..Len(alphabet) }

\* str.upper() on the lower-case letters and str.lower() on the capitals
to_upper ==
    [ c \in letters_of(LowerLetters) |->
          LET i == letter_index(c, LowerLetters) IN SubSeq(UpperLetters, i, i) ]
to_lower ==
    [ c \in letters_of(UpperLetters) |->
          LET i == letter_index(c, UpperLetters) IN SubSeq(LowerLetters, i, i) ]

\* a character is cased when it is a letter
is_cased(c) == c \in DOMAIN to_upper \/ c \in DOMAIN to_lower

\* str.upper() and str.lower() on one character
upper_char(c) == IF c \in DOMAIN to_upper THEN to_upper[c] ELSE c
lower_char(c) == IF c \in DOMAIN to_lower THEN to_lower[c] ELSE c

\* str.title() from the character i on: a character after a cased character
\* is lowered, any other character is raised; digits, underscores and blanks
\* are not cased, so a word starts again after each of them
RECURSIVE title_from(_, _, _)
title_from(s, i, previous_is_cased) ==
    IF i > Len(s) THEN ""
    ELSE LET c == SubSeq(s, i, i)
         IN  (IF previous_is_cased THEN lower_char(c) ELSE upper_char(c))
                 \o title_from(s, i + 1, is_cased(c))

\* subject.title()
Title(subject) == title_from(subject, 1, FALSE)

\* mutant of RaisesKeyError: a missing key of personalInfo is read with a default
raises_without_section_only(sd, key) == "personalInfo" \notin DOMAIN sd

\* mutant of RaisesKeyError: the academicProfile section is read with [] too
raises_on_missing_academic_section(sd, key) ==
    \/ "personalInfo" \notin DOMAIN sd
    \/ key \notin DOMAIN sd["personalInfo"]
    \/ "academicProfile" \notin DOMAIN sd

\* student_data['personalInfo'][key] raises KeyError
RaisesKeyError(sd, key) ==
    \/ "personalInfo" \notin DOMAIN sd
    \/ key \notin DOMAIN sd["personalInfo"]

\* the KeyError that student_data['personalInfo'][key] raises
KeyErrorOf(sd, key) ==
    IF "personalInfo" \notin DOMAIN sd THEN [type |-> "KeyError", key |-> "personalInfo"]
    ELSE [type |-> "KeyError", key |-> key]

\* mutant of expectations_for: an unknown or missing grade takes the entry of
\* the lowest grade of the table
expectations_falling_back_to_lowest(table, sd) ==
    LET grade == Get(Get(sd, "personalInfo", EmptyDict), "grade", "3")
    IN  Get(table, grade, table["3"])

\* mutant of expectations_for: a profile without a grade is taken as grade 6
expectations_absent_grade_as_six(table, sd) ==
    LET grade == Get(Get(sd, "personalInfo", EmptyDict), "grade", "6")
    IN  Get(table, grade, table["5"])

\* the lookup of the grade's thresholds, with the grade-5 fallback
expectations_for(table, sd) ==
    LET grade == Get(Get(sd, "personalInfo", EmptyDict), "grade", "5")
    IN  Get(table, grade, table["5"])

\* mutant of gpa_analysis: a GPA has to exceed a threshold, not only reach it
gpa_analysis_strictly_above(table, sd) ==
    LET expectations == expectations_for(table, sd)
        current_gpa == Get(Get(sd, "academicProfile", EmptyDict), "currentGPA", 0)
    IN  IF current_gpa > expectations.gpa_excellent
        THEN << TalkingPoint("academic", "high", "Excellent Academic Performance",
                    [gpa |-> current_gpa, expectation |-> expectations.gpa_excellent], FALSE) >>
        ELSE IF current_gpa > expectations.gpa_good
        THEN << TalkingPoint("academic", "medium", "Solid Academic Performance",
                    [gpa |-> current_gpa, expectation |-> expectations.gpa_good], FALSE) >>
        ELSE << TalkingPoint("academic", "high", "Academic Support Needed",
                    [gpa |-> current_gpa, expectation |-> expectations.gpa_good], TRUE) >>

\* mutant of gpa_analysis: no GPA point for a profile without a currentGPA
gpa_analysis_silent_without_gpa(table, sd) ==
    LET expectations == expectations_for(table, sd)
        academic_profile == Get(sd, "academicProfile", EmptyDict)
        current_gpa == Get(academic_profile, "currentGPA", 0)
    IN  IF "currentGPA" \notin DOMAIN academic_profile
        THEN << >>
        ELSE IF current_gpa >= expectations.gpa_excellent
        THEN << TalkingPoint("academic", "high", "Excellent Academic Performance",
                    [gpa |-> current_gpa, expectation |-> expectations.gpa_excellent], FALSE) >>
        ELSE IF current_gpa >= expectations.gpa_good
        THEN << TalkingPoint("academic", "medium", "Solid Academic Performance",
                    [gpa |-> current_gpa, expectation |-> expectations.gpa_good], FALSE) >>
        ELSE << TalkingPoint("academic", "high", "Academic Support Needed",
                    [gpa |-> current_gpa, expectation |-> expectations.gpa_good], TRUE) >>

\* the GPA point of analyze_academic_performance
gpa_analysis(table, sd) ==
    LET expectations == expectations_for(table, sd)
        current_gpa == Get(Get(sd, "academicProfile", EmptyDict), "currentGPA", 0)
    IN  IF current_gpa >= expectations.gpa_excellent
        THEN << TalkingPoint("academic", "high", "Excellent Academic Performance",
                    [gpa |-> current_gpa, expectation |-> expectations.gpa_excellent], FALSE) >>
        ELSE IF current_gpa >= expectations.gpa_good
        THEN << TalkingPoint("academic", "medium", "Solid Academic Performance",
                    [gpa |-> current_gpa, expectation |-> expectations.gpa_good], FALSE) >>
        ELSE << TalkingPoint("academic", "high", "Academic Support Needed",
                    [gpa |-> current_gpa, expectation |-> expectations.gpa_good], TRUE) >>

\* mutant of subject_analysis: a declining subject is a concern up to a score
\* of 75, 75 included
subject_analysis_concern_at_75(subject, data) ==
    LET trend == Get(data, "trend", "stable")
        score == Get(data, "averageScore", 0)
        grade_letter == Get(data, "currentGrade", "")
        supporting == [subject |-> subject, trend |-> trend, score |-> score, grade |-> grade_letter]
    IN  IF trend = "improving"
        THEN << TalkingPoint("academic", "medium", "Improvement in " \o Title(subject),
                    supporting, FALSE) >>
        ELSE IF trend = "declining" /\ score <= 75
        THEN << TalkingPoint("academic", "high", "Concerns in " \o Title(subject),
                    supporting, TRUE) >>
        ELSE << >>

\* one iteration of the loop over subjects.items()
subject_analysis(subject, data) ==
    LET trend == Get(data, "trend", "stable")
        score == Get(data, "averageScore", 0)
        grade_letter == Get(data, "currentGrade", "")
        supporting == [subject |-> subject, trend |-> trend, score |-> score, grade |-> grade_letter]
    IN  IF trend = "improving"
        THEN << TalkingPoint("academic", "medium", "Improvement in " \o Title(subject),
                    supporting, FALSE) >>
        ELSE IF trend = "declining" /\ score < 75
        THEN << TalkingPoint("academic", "high", "Concerns in " \o Title(subject),
                    supporting, TRUE) >>
        ELSE << >>

\* the loop over subjects.items(), from item i on
RECURSIVE subjects_loop(_, _)
subjects_loop(subjects, i) ==
    IF i > Len(subjects) THEN << >>
    ELSE subject_analysis(subjects[i][1], subjects[i][2]) \o subjects_loop(subjects, i + 1)

\* mutant of analyze_academic_performance: the strengths point is appended
\* before the loop over the subjects
academic_strengths_before_subjects(table, sd) ==
    LET academic_profile == Get(sd, "academicProfile", EmptyDict)
        subjects == Get(academic_profile, "subjects", << >>)
        strengths == Get(academic_profile, "strengths", << >>)
        areas_for_improvement == Get(academic_profile, "areasForImprovement", << >>)
    IN  gpa_analysis(table, sd)
        \o (IF strengths # << >>
            THEN << TalkingPoint("academic", "medium", "Academic Strengths",
                        [strengths |-> strengths], FALSE) >>
            ELSE << >>)
        \o subjects_loop(subjects, 1)
        \o (IF areas_for_improvement # << >>
            THEN << TalkingPoint("academic", "medium", "Growth Opportunities",
                        [areas_for_improvement |-> areas_for_improvement], TRUE) >>
            ELSE << >>)

\* analyze_academic_performance (for a profile with personalInfo.firstName)
analyze_academic_performance(table, sd) ==
    LET academic_profile == Get(sd, "academicProfile", EmptyDict)
        subjects == Get(academic_profile, "subjects", << >>)
        strengths == Get(academic_profile, "strengths", << >>)
        areas_for_improvement == Get(academic_profile, "areasForImprovement", << >>)
    IN  gpa_analysis(table, sd)
        \o subjects_loop(subjects, 1)
        \o (IF strengths # << >>
            THEN << TalkingPoint("academic", "medium", "Academic Strengths",
                        [strengths |-> strengths], FALSE) >>
            ELSE << >>)
        \o (IF areas_for_improvement # << >>
            THEN << TalkingPoint("academic", "medium", "Growth Opportunities",
                        [areas_for_improvement |-> areas_for_improvement], TRUE) >>
            ELSE << >>)

\* mutant of analyze_behavioral_profile: an attendance rate of exactly 0.90 is
\* a concern too
behavioral_concern_at_90(sd) ==
    LET behavioral_profile == Get(sd, "behavioralProfile", EmptyDict)
        participation_level == Get(Get(behavioral_profile, "participation", EmptyDict), "level", "medium")
        social_skills == Get(behavioral_profile, "socialSkills", EmptyDict)
        peer_interaction == Get(social_skills, "peerInteraction", "good")
        teamwork == Get(social_skills, "teamwork", "good")
        attendance == Get(behavioral_profile, "attendance", EmptyDict)
        attendance_rate == Get(attendance, "attendanceRate", 0)
        tardy_count == Get(attendance, "tardyCount", 0)
    IN  (IF participation_level = "high"
         THEN << TalkingPoint("behavioral", "medium", "Excellent Class Participation",
                     [participation_level |-> participation_level], FALSE) >>
         ELSE IF participation_level = "low"
         THEN << TalkingPoint("behavioral", "medium", "Encouraging Participation",
                     [participation_level |-> participation_level], TRUE) >>
         ELSE << >>)
        \o (IF peer_interaction = "excellent" /\ teamwork = "excellent"
            THEN << TalkingPoint("social", "medium", "Strong Social Skills",
                        [peer_interaction |-> peer_interaction, teamwork |-> teamwork], FALSE) >>
            ELSE IF peer_interaction = "needs_improvement" \/ teamwork = "needs_improvement"
            THEN << TalkingPoint("social", "medium", "Social Skills Development",
                        [peer_interaction |-> peer_interaction, teamwork |-> teamwork], TRUE) >>
            ELSE << >>)
        \o (IF attendance_rate >= 98
            THEN << TalkingPoint("behavioral", "low", "Excellent Attendance",
                        [attendance_rate |-> attendance_rate, tardy_count |-> tardy_count], FALSE) >>
            ELSE IF attendance_rate <= 90
            THEN << TalkingPoint("behavioral", "high", "Attendance Concerns",
                        [attendance_rate |-> attendance_rate, tardy_count |-> tardy_count], TRUE) >>
            ELSE << >>)
        \o (IF tardy_count > 5
            THEN << TalkingPoint("behavioral", "medium", "Punctuality",
                        [tardy_count |-> tardy_count], TRUE) >>
            ELSE << >>)

\* mutant of analyze_behavioral_profile: one excellent social skill is enough
\* for the strong-social-skills point
behavioral_strong_on_either_skill(sd) ==
    LET behavioral_profile == Get(sd, "behavioralProfile", EmptyDict)
        participation_level == Get(Get(behavioral_profile, "participation", EmptyDict), "level", "medium")
        social_skills == Get(behavioral_profile, "socialSkills", EmptyDict)
        peer_interaction == Get(social_skills, "peerInteraction", "good")
        teamwork == Get(social_skills, "teamwork", "good")
        attendance == Get(behavioral_profile, "attendance", EmptyDict)
        attendance_rate == Get(attendance, "attendanceRate", 0)
        tardy_count == Get(attendance, "tardyCount", 0)
    IN  (IF participation_level = "high"
         THEN << TalkingPoint("behavioral", "medium", "Excellent Class Participation",
                     [participation_level |-> participation_level], FALSE) >>
         ELSE IF participation_level = "low"
         THEN << TalkingPoint("behavioral", "medium", "Encouraging Participation",
                     [participation_level |-> participation_level], TRUE) >>
         ELSE << >>)
        \o (IF peer_interaction = "excellent" \/ teamwork = "excellent"
            THEN << TalkingPoint("social", "medium", "Strong Social Skills",
                        [peer_interaction |-> peer_interaction, teamwork |-> teamwork], FALSE) >>
            ELSE IF peer_interaction = "needs_improvement" \/ teamwork = "needs_improvement"
            THEN << TalkingPoint("social", "medium", "Social Skills Development",
                        [peer_interaction |-> peer_interaction, teamwork |-> teamwork], TRUE) >>
            ELSE << >>)
        \o (IF attendance_rate >= 98
            THEN << TalkingPoint("behavioral", "low", "Excellent Attendance",
                        [attendance_rate |-> attendance_rate, tardy_count |-> tardy_count], FALSE) >>
            ELSE IF attendance_rate < 90
            THEN << TalkingPoint("behavioral", "high", "Attendance Concerns",
                        [attendance_rate |-> attendance_rate, tardy_count |-> tardy_count], TRUE) >>
            ELSE << >>)
        \o (IF tardy_count > 5
            THEN << TalkingPoint("behavioral", "medium", "Punctuality",
                        [tardy_count |-> tardy_count], TRUE) >>
            ELSE << >>)

\* mutant of analyze_behavioral_profile: the strong-social-skills point is of
\* category behavioral
behavioral_social_skills_as_behavioral(sd) ==
    LET behavioral_profile == Get(sd, "behavioralProfile", EmptyDict)
        participation_level == Get(Get(behavioral_profile, "participation", EmptyDict), "level", "medium")
        social_skills == Get(behavioral_profile, "socialSkills", EmptyDict)
        peer_interaction == Get(social_skills, "peerInteraction", "good")
        teamwork == Get(social_skills, "teamwork", "good")
        attendance == Get(behavioral_profile, "attendance", EmptyDict)
        attendance_rate == Get(attendance, "attendanceRate", 0)
        tardy_count == Get(attendance, "tardyCount", 0)
    IN  (IF participation_level = "high"
         THEN << TalkingPoint("behavioral", "medium", "Excellent Class Participation",
                     [participation_level |-> participation_level], FALSE) >>
         ELSE IF participation_level = "low"
         THEN << TalkingPoint("behavioral", "medium", "Encouraging Participation",
                     [participation_level |-> participation_level], TRUE) >>
         ELSE << >>)
        \o (IF peer_interaction = "excellent" /\ teamwork = "excellent"
            THEN << TalkingPoint("behavioral", "medium", "Strong Social Skills",
                        [peer_interaction |-> peer_interaction, teamwork |-> teamwork], FALSE) >>
            ELSE IF peer_interaction = "needs_improvement" \/ teamwork = "needs_improvement"
            THEN << TalkingPoint("social", "medium", "Social Skills Development",
                        [peer_interaction |-> peer_interaction, teamwork |-> teamwork], TRUE) >>
            ELSE << >>)
        \o (IF attendance_rate >= 98
            THEN << TalkingPoint("behavioral", "low", "Excellent Attendance",
                        [attendance_rate |-> attendance_rate, tardy_count |-> tardy_count], FALSE) >>
            ELSE IF attendance_rate < 90
            THEN << TalkingPoint("behavioral", "high", "Attendance Concerns",
                        [attendance_rate |-> attendance_rate, tardy_count |-> tardy_count], TRUE) >>
            ELSE << >>)
        \o (IF tardy_count > 5
            THEN << TalkingPoint("behavioral", "medium", "Punctuality",
                        [tardy_count |-> tardy_count], TRUE) >>
            ELSE << >>)

\* analyze_behavioral_profile
analyze_behavioral_profile(sd) ==
    LET behavioral_profile == Get(sd, "behavioralProfile", EmptyDict)
        participation_level == Get(Get(behavioral_profile, "participation", EmptyDict), "level", "medium")
        social_skills == Get(behavioral_profile, "socialSkills", EmptyDict)
        peer_interaction == Get(social_skills, "peerInteraction", "good")
        teamwork == Get(social_skills, "teamwork", "good")
        attendance == Get(behavioral_profile, "attendance", EmptyDict)
        attendance_rate == Get(attendance, "attendanceRate", 0)
        tardy_count == Get(attendance, "tardyCount", 0)
    IN  (IF participation_level = "high"
         THEN << TalkingPoint("behavioral", "medium", "Excellent Class Participation",
                     [participation_level |-> participation_level], FALSE) >>
         ELSE IF participation_level = "low"
         THEN << TalkingPoint("behavioral", "medium", "Encouraging Participation",
                     [participation_level |-> participation_level], TRUE) >>
         ELSE << >>)
        \o (IF peer_interaction = "excellent" /\ teamwork = "excellent"
            THEN << TalkingPoint("social", "medium", "Strong Social Skills",
                        [peer_interaction |-> peer_interaction, teamwork |-> teamwork], FALSE) >>
            ELSE IF peer_interaction = "needs_improvement" \/ teamwork = "needs_improvement"
            THEN << TalkingPoint("social", "medium", "Social Skills Development",
                        [peer_interaction |-> peer_interaction, teamwork |-> teamwork], TRUE) >>
            ELSE << >>)
        \o (IF attendance_rate >= 98
            THEN << TalkingPoint("behavioral", "low", "Excellent Attendance",
                        [attendance_rate |-> attendance_rate, tardy_count |-> tardy_count], FALSE) >>
            ELSE IF attendance_rate < 90
            THEN << TalkingPoint("behavioral", "high", "Attendance Concerns",
                        [attendance_rate |-> attendance_rate, tardy_count |-> tardy_count], TRUE) >>
            ELSE << >>)
        \o (IF tardy_count > 5
            THEN << TalkingPoint("behavioral", "medium", "Punctuality",
                        [tardy_count |-> tardy_count], TRUE) >>
            ELSE << >>)

\* mutant of analyze_extracurricular_engagement: only the sports are counted
extracurricular_counting_sports_only(sd) ==
    LET extracurricular == Get(sd, "extracurricular", EmptyDict)
        sports == Get(extracurricular, "sports", << >>)
        clubs == Get(extracurricular, "clubs", << >>)
        achievements == Get(extracurricular, "achievements", << >>)
        volunteer_hours == Get(extracurricular, "volunteerHours", 0)
        total_activities == Len(sports)
    IN  (IF total_activities >= 3
         THEN << TalkingPoint("social", "medium", "Well-Rounded Engagement",
                     [sports |-> sports, clubs |-> clubs, total_activities |-> total_activities],
                     FALSE) >>
         ELSE IF total_activities = 0
         THEN << TalkingPoint("social", "low", "Extracurricular Opportunities",
                     [total_activities |-> total_activities], FALSE) >>
         ELSE << >>)
        \o (IF achievements # << >>
            THEN << TalkingPoint("social", "medium", "Recognition and Achievements",
                        [achievements |-> achievements], FALSE) >>
            ELSE << >>)
        \o (IF volunteer_hours > 10
            THEN << TalkingPoint("social", "medium", "Community Service",
                        [volunteer_hours |-> volunteer_hours], FALSE) >>
            ELSE << >>)

\* mutant of analyze_extracurricular_engagement: the point for no activity at
\* all requires action
extracurricular_opportunities_requiring_action(sd) ==
    LET extracurricular == Get(sd, "extracurricular", EmptyDict)
        sports == Get(extracurricular, "sports", << >>)
        clubs == Get(extracurricular, "clubs", << >>)
        achievements == Get(extracurricular, "achievements", << >>)
        volunteer_hours == Get(extracurricular, "volunteerHours", 0)
        total_activities == Len(sports) + Len(clubs)
    IN  (IF total_activities >= 3
         THEN << TalkingPoint("social", "medium", "Well-Rounded Engagement",
                     [sports |-> sports, clubs |-> clubs, total_activities |-> total_activities],
                     FALSE) >>
         ELSE IF total_activities = 0
         THEN << TalkingPoint("social", "low", "Extracurricular Opportunities",
                     [total_activities |-> total_activities], TRUE) >>
         ELSE << >>)
        \o (IF achievements # << >>
            THEN << TalkingPoint("social", "medium", "Recognition and Achievements",
                        [achievements |-> achievements], FALSE) >>
            ELSE << >>)
        \o (IF volunteer_hours > 10
            THEN << TalkingPoint("social", "medium", "Community Service",
                        [volunteer_hours |-> volunteer_hours], FALSE) >>
            ELSE << >>)

\* analyze_extracurricular_engagement
analyze_extracurricular_engagement(sd) ==
    LET extracurricular == Get(sd, "extracurricular", EmptyDict)
        sports == Get(extracurricular, "sports", << >>)
        clubs == Get(extracurricular, "clubs", << >>)
        achievements == Get(extracurricular, "achievements", << >>)
        volunteer_hours == Get(extracurricular, "volunteerHours", 0)
        total_activities == Len(sports) + Len(clubs)
    IN  (IF total_activities >= 3
         THEN << TalkingPoint("social", "medium", "Well-Rounded Engagement",
                     [sports |-> sports, clubs |-> clubs, total_activities |-> total_activities],
                     FALSE) >>
         ELSE IF total_activities = 0
         THEN << TalkingPoint("social", "low", "Extracurricular Opportunities",
                     [total_activities |-> total_activities], FALSE) >>
         ELSE << >>)
        \o (IF achievements # << >>
            THEN << TalkingPoint("social", "medium", "Recognition and Achievements",
                        [achievements |-> achievements], FALSE) >>
            ELSE << >>)
        \o (IF volunteer_hours > 10
            THEN << TalkingPoint("social", "medium", "Community Service",
                        [volunteer_hours |-> volunteer_hours], FALSE) >>
            ELSE << >>)

\* mutant of analyze_parent_engagement: the concerns check is the else branch
\* of the homework check
parent_concerns_in_else_branch(sd) ==
    LET parent_engagement == Get(sd, "parentEngagement", EmptyDict)
        communication_frequency == Get(parent_engagement, "communicationFrequency", "medium")
        homework_support == Get(parent_engagement, "homeworkSupport", "good")
        concerns_raised == Get(parent_engagement, "concernsRaised", << >>)
    IN  (IF communication_frequency = "high"
         THEN << TalkingPoint("goals", "low", "Strong Parent Partnership",
                     [communication_frequency |-> communication_frequency], FALSE) >>
         ELSE IF communication_frequency = "low"
         THEN << TalkingPoint("goals", "medium", "Increasing Communication",
                     [communication_frequency |-> communication_frequency], TRUE) >>
         ELSE << >>)
        \o (IF homework_support = "excellent"
            THEN << TalkingPoint("goals", "low", "Homework Support",
                        [homework_support |-> homework_support], FALSE) >>
            ELSE IF homework_support = "needs_improvement"
            THEN << TalkingPoint("goals", "medium", "Homework Partnership",
                        [homework_support |-> homework_support], TRUE) >>
            ELSE << >>)
        \o (IF concerns_raised # << >> /\ homework_support = "good"
            THEN << TalkingPoint("goals", "high", "Addressing Parent Concerns",
                        [concerns_raised |-> concerns_raised], TRUE) >>
            ELSE << >>)

\* analyze_parent_engagement
analyze_parent_engagement(sd) ==
    LET parent_engagement == Get(sd, "parentEngagement", EmptyDict)
        communication_frequency == Get(parent_engagement, "communicationFrequency", "medium")
        homework_support == Get(parent_engagement, "homeworkSupport", "good")
        concerns_raised == Get(parent_engagement, "concernsRaised", << >>)
    IN  (IF communication_frequency = "high"
         THEN << TalkingPoint("goals", "low", "Strong Parent Partnership",
                     [communication_frequency |-> communication_frequency], FALSE) >>
         ELSE IF communication_frequency = "low"
         THEN << TalkingPoint("goals", "medium", "Increasing Communication",
                     [communication_frequency |-> communication_frequency], TRUE) >>
         ELSE << >>)
        \o (IF homework_support = "excellent"
            THEN << TalkingPoint("goals", "low", "Homework Support",
                        [homework_support |-> homework_support], FALSE) >>
            ELSE IF homework_support = "needs_improvement"
            THEN << TalkingPoint("goals", "medium", "Homework Partnership",
                        [homework_support |-> homework_support], TRUE) >>
            ELSE << >>)
        \o (IF concerns_raised # << >>
            THEN << TalkingPoint("goals", "high", "Addressing Parent Concerns",
                        [concerns_raised |-> concerns_raised], TRUE) >>
            ELSE << >>)

\* mutant of analyze_goals_and_progress: the goals of the parents count as
\* long-term goals
goals_counting_parent_goals(sd) ==
    LET goals == Get(sd, "goals", EmptyDict)
        teacher_notes == Get(sd, "teacherNotes", EmptyDict)
        short_term_goals == Get(goals, "shortTerm", << >>)
        long_term_goals == Get(goals, "longTerm", << >>)
        recommended_actions == Get(teacher_notes, "recommendedActions", << >>)
        motivation_level == Get(teacher_notes, "motivationLevel", "medium")
    IN  (IF short_term_goals # << >>
         THEN << TalkingPoint("goals", "high", "Short-term Goals Progress",
                     [short_term_goals |-> short_term_goals], TRUE) >>
         ELSE << >>)
        \o (IF long_term_goals # << >> \/ Get(goals, "parentGoals", << >>) # << >>
            THEN << TalkingPoint("goals", "medium", "Long-term Vision",
                        [long_term_goals |-> long_term_goals], FALSE) >>
            ELSE << >>)
        \o (IF recommended_actions # << >>
            THEN << TalkingPoint("recommendations", "high", "Action Plan",
                        [recommended_actions |-> recommended_actions], TRUE) >>
            ELSE << >>)
        \o (IF motivation_level = "low"
            THEN << TalkingPoint("recommendations", "high", "Motivation Strategies",
                        [motivation_level |-> motivation_level], TRUE) >>
            ELSE << >>)

\* mutant of analyze_goals_and_progress: the long-term point is of high priority
goals_long_term_high_priority(sd) ==
    LET goals == Get(sd, "goals", EmptyDict)
        teacher_notes == Get(sd, "teacherNotes", EmptyDict)
        short_term_goals == Get(goals, "shortTerm", << >>)
        long_term_goals == Get(goals, "longTerm", << >>)
        recommended_actions == Get(teacher_notes, "recommendedActions", << >>)
        motivation_level == Get(teacher_notes, "motivationLevel", "medium")
    IN  (IF short_term_goals # << >>
         THEN << TalkingPoint("goals", "high", "Short-term Goals Progress",
                     [short_term_goals |-> short_term_goals], TRUE) >>
         ELSE << >>)
        \o (IF long_term_goals # << >>
            THEN << TalkingPoint("goals", "high", "Long-term Vision",
                        [long_term_goals |-> long_term_goals], FALSE) >>
            ELSE << >>)
        \o (IF recommended_actions # << >>
            THEN << TalkingPoint("recommendations", "high", "Action Plan",
                        [recommended_actions |-> recommended_actions], TRUE) >>
            ELSE << >>)
        \o (IF motivation_level = "low"
            THEN << TalkingPoint("recommendations", "high", "Motivation Strategies",
                        [motivation_level |-> motivation_level], TRUE) >>
            ELSE << >>)

\* analyze_goals_and_progress
analyze_goals_and_progress(sd) ==
    LET goals == Get(sd, "goals", EmptyDict)
        teacher_notes == Get(sd, "teacherNotes", EmptyDict)
        short_term_goals == Get(goals, "shortTerm", << >>)
        long_term_goals == Get(goals, "longTerm", << >>)
        recommended_actions == Get(teacher_notes, "recommendedActions", << >>)
        motivation_level == Get(teacher_notes, "motivationLevel", "medium")
    IN  (IF short_term_goals # << >>
         THEN << TalkingPoint("goals", "high", "Short-term Goals Progress",
                     [short_term_goals |-> short_term_goals], TRUE) >>
         ELSE << >>)
        \o (IF long_term_goals # << >>
            THEN << TalkingPoint("goals", "medium", "Long-term Vision",
                        [long_term_goals |-> long_term_goals], FALSE) >>
            ELSE << >>)
        \o (IF recommended_actions # << >>
            THEN << TalkingPoint("recommendations", "high", "Action Plan",
                        [recommended_actions |-> recommended_actions], TRUE) >>
            ELSE << >>)
        \o (IF motivation_level = "low"
            THEN << TalkingPoint("recommendations", "high", "Motivation Strategies",
                        [motivation_level |-> motivation_level], TRUE) >>
            ELSE << >>)

(***************************************************************************)
(* The aggregator and the summary synthesizer.                             *)
(***************************************************************************)

Categories == <<"academic", "behavioral", "social", "goals", "recommendations">>

\* mutant of priority_order: low sorts in front of medium
priority_order_low_before_medium(priority) ==
    CASE priority = "high" -> 0
      [] priority = "low" -> 1
      [] priority = "medium" -> 2
      [] OTHER -> 3

\* priority_order.get(priority, 3)
priority_order(priority) ==
    CASE priority = "high" -> 0
      [] priority = "medium" -> 1
      [] priority = "low" -> 2
      [] OTHER -> 3

\* the place of p in an already sorted list: behind every point whose key is
\* not larger (list.sort is stable)
\* mutant of insert_by_key: p goes in front of the points of equal key
RECURSIVE insert_before_ties(_, _)
insert_before_ties(sorted, p) ==
    IF sorted = << >> THEN << p >>
    ELSE IF priority_order(Head(sorted).priority) < priority_order(p.priority)
    THEN << Head(sorted) >> \o insert_before_ties(Tail(sorted), p)
    ELSE << p >> \o sorted

RECURSIVE insert_by_key(_, _)
insert_by_key(sorted, p) ==
    IF sorted = << >> THEN << p >>
    ELSE IF priority_order(Head(sorted).priority) <= priority_order(p.priority)
    THEN << Head(sorted) >> \o insert_by_key(Tail(sorted), p)
    ELSE << p >> \o sorted

\* all_talking_points.sort(key=lambda x: priority_order.get(x.priority, 3)),
\* having placed the first i - 1 points (the list with point i placed is bound
\* to a variable, so that it is computed once and not once for each use)
RECURSIVE sort_from(_, _, _)
sort_from(points, i, sorted) ==
    IF i > Len(points) THEN sorted
    ELSE CHOOSE done \in { sort_from(points, i + 1, placed) :
                               placed \in { insert_by_key(sorted, points[i]) } } : TRUE

\* mutant of sort_by_priority: the loop starts one point late
sort_skipping_first(points) == sort_from(points, 2, << >>)

sort_by_priority(points) == sort_from(points, 1, << >>)

\* the dict appended to a bucket for one point
point_dict(point) ==
    [ priority |-> point.priority, title |-> point.title,
      supporting_data |-> point.supporting_data, action_required |-> point.action_required ]

\* the five empty buckets
empty_buckets == [ c \in {Categories[i] : i \in 1..Len(Categories)} |-> << >> ]

\* mutant of group_loop: a point goes to the front of its bucket
RECURSIVE group_loop_prepending(_, _, _)
group_loop_prepending(points, i, buckets) ==
    IF i > Len(points) THEN buckets
    ELSE group_loop_prepending(points, i + 1,
             [buckets EXCEPT ![points[i].category] = << point_dict(points[i]) >> \o @])

\* the loop "for point in all_talking_points", from point i on
RECURSIVE group_loop(_, _, _)
group_loop(points, i, buckets) ==
    IF i > Len(points) THEN buckets
    ELSE group_loop(points, i + 1,
             [buckets EXCEPT ![points[i].category] = Append(@, point_dict(points[i]))])

group_by_category(points) == group_loop(points, 1, empty_buckets)

IsHigh(p) == p.priority = "high"
IsAction(p) == p.action_required
IsHighIssue(p) == p.priority = "high" /\ p.action_required
IsStrength(p) == p.priority = "medium" /\ ~p.action_required

\* mutant of high_priority_count: counts the high-priority points that need action
high_priority_count_of_issues(points) == Len(SelectSeq(points, IsHighIssue))

\* len([p for p in all_talking_points if p.priority == "high"])
high_priority_count(points) == Len(SelectSeq(points, IsHigh))

\* len([p for p in all_talking_points if p.action_required])
action_required_count(points) == Len(SelectSeq(points, IsAction))

\* mutant of action_items: keeps the high-priority action points only
action_items_high_only(points) == SelectSeq(points, IsHighIssue)

\* [p for p in all_talking_points if p.action_required]
action_items(points) == SelectSeq(points, IsAction)

\* mutant of strengths_to_celebrate: keeps every point that needs no action
strengths_of_any_priority(points) == SelectSeq(points, LAMBDA p : ~p.action_required)

\* [p for p in all_talking_points if p.priority == "medium" and not p.action_required]
strengths_to_celebrate(points) == SelectSeq(points, IsStrength)

\* [p for p in talking_points if p.priority == "high" and p.action_required]
high_priority_issues(points) == SelectSeq(points, IsHighIssue)

MultiAreaMessage(first_name) ==
    first_name \o " would benefit from increased support and intervention in multiple areas. Let's create a comprehensive action plan."

PerformingWellMessage(first_name) ==
    first_name \o " is performing well overall. Continue current strategies while addressing minor areas for growth."

ExcellentWorkMessage(first_name) ==
    first_name \o " is doing excellent work. Focus on maintaining current performance and exploring enrichment opportunities."

TargetedSupportMessage(first_name) ==
    first_name \o " shows good potential. Targeted support in key areas will help maximize success."

\* mutant of generate_overall_recommendation: the ladder counts every
\* high-priority point
recommendation_counting_all_high(sd, talking_points) ==
    LET first_name == sd["personalInfo"]["firstName"]
        issues == SelectSeq(talking_points, IsHigh)
        academic_gpa == Get(Get(sd, "academicProfile", EmptyDict), "currentGPA", 0)
    IN  IF Len(issues) >= 3 THEN MultiAreaMessage(first_name)
        ELSE IF academic_gpa >= 350 /\ Len(issues) <= 1 THEN PerformingWellMessage(first_name)
        ELSE IF Len(issues) = 0 THEN ExcellentWorkMessage(first_name)
        ELSE TargetedSupportMessage(first_name)

\* mutant of generate_overall_recommendation: the zero-issues rung is tested
\* before the GPA rung
recommendation_zero_rung_first(sd, talking_points) ==
    LET first_name == sd["personalInfo"]["firstName"]
        issues == high_priority_issues(talking_points)
        academic_gpa == Get(Get(sd, "academicProfile", EmptyDict), "currentGPA", 0)
    IN  IF Len(issues) >= 3 THEN MultiAreaMessage(first_name)
        ELSE IF Len(issues) = 0 THEN ExcellentWorkMessage(first_name)
        ELSE IF academic_gpa >= 350 /\ Len(issues) <= 1 THEN PerformingWellMessage(first_name)
        ELSE TargetedSupportMessage(first_name)

\* mutant of generate_overall_recommendation: the first rung needs more than
\* three issues
recommendation_above_three(sd, talking_points) ==
    LET first_name == sd["personalInfo"]["firstName"]
        issues == high_priority_issues(talking_points)
        academic_gpa == Get(Get(sd, "academicProfile", EmptyDict), "currentGPA", 0)
    IN  IF Len(issues) > 3 THEN MultiAreaMessage(first_name)
        ELSE IF academic_gpa >= 350 /\ Len(issues) <= 1 THEN PerformingWellMessage(first_name)
        ELSE IF Len(issues) = 0 THEN ExcellentWorkMessage(first_name)
        ELSE TargetedSupportMessage(first_name)

\* _generate_overall_recommendation
generate_overall_recommendation(sd, talking_points) ==
    LET first_name == sd["personalInfo"]["firstName"]
        issues == high_priority_issues(talking_points)
        academic_gpa == Get(Get(sd, "academicProfile", EmptyDict), "currentGPA", 0)
    IN  IF Len(issues) >= 3 THEN MultiAreaMessage(first_name)
        ELSE IF academic_gpa >= 350 /\ Len(issues) <= 1 THEN PerformingWellMessage(first_name)
        ELSE IF Len(issues) = 0 THEN ExcellentWorkMessage(first_name)
        ELSE TargetedSupportMessage(first_name)

\* _create_data_summary
create_data_summary(sd) ==
    LET extracurricular == Get(sd, "extracurricular", EmptyDict)
        behavioral_profile == Get(sd, "behavioralProfile", EmptyDict)
    IN  [ current_gpa |-> Get(Get(sd, "academicProfile", EmptyDict), "currentGPA", 0),
          attendance_rate |-> Get(Get(behavioral_profile, "attendance", EmptyDict), "attendanceRate", 0),
          participation_level |-> Get(Get(behavioral_profile, "participation", EmptyDict), "level", "unknown"),
          extracurricular_count |-> Len(Get(extracurricular, "sports", << >>))
                                    + Len(Get(extracurricular, "clubs", << >>)),
          learning_style |-> Get(Get(sd, "academicProfile", EmptyDict), "learningStyle", "unknown"),
          communication_frequency |-> Get(Get(sd, "parentEngagement", EmptyDict),
                                          "communicationFrequency", "unknown") ]

\* the values datetime.now().strftime("%Y-%m-%d") may take
Dates == {"2025-03-01", "2025-03-02"}

\* the meeting_summary dict
build_meeting_summary(sd, points, date) ==
    [ student_name |-> sd["personalInfo"]["firstName"] \o " " \o sd["personalInfo"]["lastName"],
      grade |-> sd["personalInfo"]["grade"],
      meeting_date |-> date,
      total_talking_points |-> Len(points),
      high_priority_items |-> high_priority_count(points),
      action_items |-> action_required_count(points),
      overall_recommendation |-> generate_overall_recommendation(sd, points) ]

\* the dict generate_talking_points returns
build_result(sd, points, buckets, summary) ==
    [ meeting_summary |-> summary,
      talking_points_by_category |-> buckets,
      action_items |-> action_items(points),
      strengths_to_celebrate |-> strengths_to_celebrate(points),
      student_data_summary |-> create_data_summary(sd) ]

(***************************************************************************)
(* generate_talking_points, statement group by statement group.            *)
(***************************************************************************)

Init ==
    /\ grade_level_expectations = InitialExpectations
    /\ student_data \in Profiles
    /\ pc = "analyze_academic"
    /\ all_talking_points = << >>
    /\ categorized_points = NoValue
    /\ meeting_summary = NoValue
    /\ result = NoValue
    /\ exception = NoValue
    /\ calls = << >>
    /\ agenda = << >>

\* an uncaught exception ends the call: nothing is returned
Raise(e) ==
    /\ pc' = "raised"
    /\ exception' = e
    /\ UNCHANGED <<agenda, calls, grade_level_expectations, student_data, all_talking_points,
                   categorized_points, meeting_summary, result>>

\* mutant of Extend: the evaluator reads the academicProfile section with
\* setdefault, which puts an empty section into a profile that has none
extend_setting_default_section(points, next) ==
    /\ all_talking_points' = all_talking_points \o points
    /\ student_data' = IF "academicProfile" \in DOMAIN student_data
                       THEN student_data
                       ELSE DictSet(student_data, "academicProfile", EmptyDict)
    /\ pc' = next
    /\ UNCHANGED <<agenda, calls, grade_level_expectations, categorized_points,
                   meeting_summary, result, exception>>

\* all_talking_points.extend(points), then on to the statement at next
Extend(points, next) ==
    /\ all_talking_points' = all_talking_points \o points
    /\ pc' = next
    /\ UNCHANGED <<agenda, calls, grade_level_expectations, student_data, categorized_points,
                   meeting_summary, result, exception>>

\* mutant of AnalyzeAcademic: the grade lookup is a setdefault, which stores the
\* fallback entry in the table under a grade that the table does not have
analyze_academic_storing_fallback ==
    /\ pc = "analyze_academic"
    /\ IF RaisesKeyError(student_data, "firstName")
       THEN Raise(KeyErrorOf(student_data, "firstName"))
       ELSE LET grade == Get(Get(student_data, "personalInfo", EmptyDict), "grade", "5")
            IN  /\ all_talking_points' =
                       all_talking_points
                       \o analyze_academic_performance(grade_level_expectations, student_data)
                /\ grade_level_expectations' =
                       IF grade \in DOMAIN grade_level_expectations
                       THEN grade_level_expectations
                       ELSE DictSet(grade_level_expectations, grade,
                                    grade_level_expectations["5"])
                /\ pc' = "analyze_behavioral"
                /\ UNCHANGED <<agenda, calls, student_data, categorized_points, meeting_summary,
                               result, exception>>

AnalyzeAcademic ==
    /\ pc = "analyze_academic"
    /\ IF RaisesKeyError(student_data, "firstName")
       THEN Raise(KeyErrorOf(student_data, "firstName"))
       ELSE Extend(analyze_academic_performance(grade_level_expectations, student_data),
                   "analyze_behavioral")

AnalyzeBehavioral ==
    /\ pc = "analyze_behavioral"
    /\ IF RaisesKeyError(student_data, "firstName")
       THEN Raise(KeyErrorOf(student_data, "firstName"))
       ELSE Extend(analyze_behavioral_profile(student_data), "analyze_extracurricular")

AnalyzeExtracurricular ==
    /\ pc = "analyze_extracurricular"
    /\ IF RaisesKeyError(student_data, "firstName")
       THEN Raise(KeyErrorOf(student_data, "firstName"))
       ELSE Extend(analyze_extracurricular_engagement(student_data), "analyze_parent")

AnalyzeParent ==
    /\ pc = "analyze_parent"
    /\ IF RaisesKeyError(student_data, "firstName")
       THEN Raise(KeyErrorOf(student_data, "firstName"))
       ELSE Extend(analyze_parent_engagement(student_data), "analyze_goals")

AnalyzeGoals ==
    /\ pc = "analyze_goals"
    /\ IF RaisesKeyError(student_data, "firstName")
       THEN Raise(KeyErrorOf(student_data, "firstName"))
       ELSE Extend(analyze_goals_and_progress(student_data), "sort")

SortByPriority ==
    /\ pc = "sort"
    /\ all_talking_points' = sort_by_priority(all_talking_points)
    /\ pc' = "group"
    /\ UNCHANGED <<agenda, calls, grade_level_expectations, student_data, categorized_points,
                   meeting_summary, result, exception>>

GroupByCategory ==
    /\ pc = "group"
    /\ categorized_points' = group_by_category(all_talking_points)
    /\ pc' = "summary"
    /\ UNCHANGED <<agenda, calls, grade_level_expectations, student_data, all_talking_points,
                   meeting_summary, result, exception>>

\* the first of the three identity keys that is missing, in the order they are
\* read ("" when none is)
FirstMissingIdentityKey(sd) ==
    IF RaisesKeyError(sd, "firstName") THEN "firstName"
    ELSE IF RaisesKeyError(sd, "lastName") THEN "lastName"
    ELSE IF RaisesKeyError(sd, "grade") THEN "grade"
    ELSE ""

Summarize ==
    /\ pc = "summary"
    /\ IF FirstMissingIdentityKey(student_data) # ""
       THEN Raise(KeyErrorOf(student_data, FirstMissingIdentityKey(student_data)))
       ELSE /\ \E date \in Dates :
                 meeting_summary' = build_meeting_summary(student_data, all_talking_points, date)
            /\ pc' = "return"
            /\ UNCHANGED <<agenda, calls, grade_level_expectations, student_data, all_talking_points,
                           categorized_points, result, exception>>

Return ==
    /\ pc = "return"
    /\ result' = build_result(student_data, all_talking_points, categorized_points,
                              meeting_summary)
    /\ pc' = "returned"
    /\ UNCHANGED <<agenda, calls, grade_level_expectations, student_data, all_talking_points,
                   categorized_points, meeting_summary, exception>>

Next ==
    \/ AnalyzeAcademic
    \/ AnalyzeBehavioral
    \/ AnalyzeExtracurricular
    \/ AnalyzeParent
    \/ AnalyzeGoals
    \/ SortByPriority
    \/ GroupByCategory
    \/ Summarize
    \/ Return

Spec == Init /\ [][Next]_vars

(***************************************************************************)
(* Several calls, one after the other, on one generator instance.          *)
(***************************************************************************)

\* the profiles given to the calls on one instance: the base profiles, a
\* profile of a grade that the table does not have, one without a grade and
\* one without a first name
RepeatedProfiles ==
    BaseProfiles
    \cup { SetField(RichProfile, "personalInfo", "grade", "7"),
           RemoveField(NeutralProfile, "personalInfo", "grade"),
           RemoveField(MinimalProfile, "personalInfo", "firstName") }

InitRepeated ==
    /\ grade_level_expectations = InitialExpectations
    /\ student_data \in RepeatedProfiles
    /\ pc = "analyze_academic"
    /\ all_talking_points = << >>
    /\ categorized_points = NoValue
    /\ meeting_summary = NoValue
    /\ result = NoValue
    /\ exception = NoValue
    /\ calls = << >>
    /\ agenda = << >>

\* the next call of generate_talking_points on the same instance, once the call
\* before it has ended: new argument, new locals, the same self
Call ==
    /\ pc \in {"returned", "raised"}
    /\ Len(calls) < MaxCalls
    /\ calls' = Append(calls, [student_data |-> student_data, result |-> result,
                               exception |-> exception])
    /\ student_data' \in RepeatedProfiles
    /\ pc' = "analyze_academic"
    /\ all_talking_points' = << >>
    /\ categorized_points' = NoValue
    /\ meeting_summary' = NoValue
    /\ result' = NoValue
    /\ exception' = NoValue
    /\ agenda' = << >>
    /\ UNCHANGED grade_level_expectations

NextRepeated ==
    \/ Next
    \/ Call

SpecRepeated == InitRepeated /\ [][NextRepeated]_vars

(***************************************************************************)
(* One call on a profile that varies in what one evaluator reads.          *)
(***************************************************************************)

\* the profiles of S with sd[section][key] set to each of values, or removed
WithEach(S, section, key, values) ==
    UNION { { SetField(sd, section, key, v) : v \in values }
            \cup { RemoveField(sd, section, key) } : sd \in S }

\* grades: the table's keys and two grades that the table does not have
GradeChoices == {"3", "4", "5", "6", "7", "K"}

\* GPAs, in hundredths: each threshold of the table, the value just under it,
\* and values beyond both ends
GPAChoices == {0, 299, 300, 309, 310, 319, 320, 329, 330, 349, 350, 359, 360,
               369, 370, 379, 380, 390, 400}

\* subject records: each trend with scores around 75, and records that lack a key
SubjectChoices ==
    { [trend |-> t, averageScore |-> s, currentGrade |-> "B"] :
          t \in {"improving", "declining", "stable"}, s \in {74, 75, 76} }
    \cup { [averageScore |-> 74, currentGrade |-> "B"],
           [trend |-> "declining", currentGrade |-> "B"],
           [trend |-> "improving"],
           EmptyDict }

\* subjects mappings of at most two subjects
SubjectsChoices ==
    { << >> }
    \cup { << <<"math", d>> >> : d \in SubjectChoices }
    \cup { << <<"social_studies", d>>, <<"mathematics", e>> >> : d \in SubjectChoices, e \in SubjectChoices }

AcademicProfiles ==
    WithEach(WithEach({NeutralProfile, RichProfile}, "personalInfo", "grade", GradeChoices),
             "academicProfile", "currentGPA", GPAChoices)
    \cup WithEach({NeutralProfile, RichProfile, MinimalProfile},
                  "academicProfile", "subjects", SubjectsChoices)

InitAcademic ==
    /\ grade_level_expectations = InitialExpectations
    /\ student_data \in AcademicProfiles
    /\ pc = "analyze_academic"
    /\ all_talking_points = << >>
    /\ categorized_points = NoValue
    /\ meeting_summary = NoValue
    /\ result = NoValue
    /\ exception = NoValue
    /\ calls = << >>
    /\ agenda = << >>

SpecAcademic == InitAcademic /\ [][Next]_vars

\* attendance records: rates (in hundredths) around 0.90 and 0.98, tardy counts
\* around 5, and records that lack a key
AttendanceChoices ==
    { [attendanceRate |-> r, tardyCount |-> t] :
          r \in {0, 85, 89, 90, 91, 97, 98, 99, 100}, t \in {0, 4, 5, 6, 10} }
    \cup { [attendanceRate |-> r] : r \in {85, 89, 90, 97, 98} }
    \cup { [tardyCount |-> t] : t \in {5, 6} }
    \cup { EmptyDict }

SkillLevels == {"excellent", "good", "needs_improvement"}

\* socialSkills records: every pair of levels, and records that lack a key
SocialSkillsChoices ==
    { [peerInteraction |-> a, teamwork |-> b] : a \in SkillLevels, b \in SkillLevels }
    \cup { [peerInteraction |-> a] : a \in SkillLevels }
    \cup { [teamwork |-> b] : b \in SkillLevels }
    \cup { EmptyDict }

BehavioralProfiles ==
    WithEach(WithEach({MinimalProfile, RichProfile},
                      "behavioralProfile", "attendance", AttendanceChoices),
             "behavioralProfile", "socialSkills", SocialSkillsChoices)

InitBehavioral ==
    /\ grade_level_expectations = InitialExpectations
    /\ student_data \in BehavioralProfiles
    /\ pc = "analyze_academic"
    /\ all_talking_points = << >>
    /\ categorized_points = NoValue
    /\ meeting_summary = NoValue
    /\ result = NoValue
    /\ exception = NoValue
    /\ calls = << >>
    /\ agenda = << >>

SpecBehavioral == InitBehavioral /\ [][Next]_vars

\* lists of sports and of clubs of up to three entries
ActivityChoices == { Items(n) : n \in 0..3 }

ExtracurricularProfiles ==
    WithEach(WithEach(WithEach(WithEach({MinimalProfile, RichProfile},
                                        "extracurricular", "sports", ActivityChoices),
                               "extracurricular", "clubs", ActivityChoices),
                      "extracurricular", "achievements", {Items(0), Items(1)}),
             "extracurricular", "volunteerHours", {0, 10, 11})

InitExtracurricular ==
    /\ grade_level_expectations = InitialExpectations
    /\ student_data \in ExtracurricularProfiles
    /\ pc = "analyze_academic"
    /\ all_talking_points = << >>
    /\ categorized_points = NoValue
    /\ meeting_summary = NoValue
    /\ result = NoValue
    /\ exception = NoValue
    /\ calls = << >>
    /\ agenda = << >>

SpecExtracurricular == InitExtracurricular /\ [][Next]_vars

\* parentEngagement fields: every level of each, and no, one or two concerns
ParentProfiles ==
    WithEach(WithEach(WithEach(BaseProfiles,
                               "parentEngagement", "communicationFrequency",
                               {"high", "medium", "low"}),
                      "parentEngagement", "homeworkSupport",
                      {"excellent", "good", "needs_improvement"}),
             "parentEngagement", "concernsRaised", {Items(0), Items(1), Items(2)})

InitParent ==
    /\ grade_level_expectations = InitialExpectations
    /\ student_data \in ParentProfiles
    /\ pc = "analyze_academic"
    /\ all_talking_points = << >>
    /\ categorized_points = NoValue
    /\ meeting_summary = NoValue
    /\ result = NoValue
    /\ exception = NoValue
    /\ calls = << >>
    /\ agenda = << >>

SpecParent == InitParent /\ [][Next]_vars

\* the fields of goals and teacherNotes: each list empty or not, each
\* motivation level
GoalsProfiles ==
    WithEach(WithEach(WithEach(WithEach(WithEach({MinimalProfile, RichProfile},
                                                 "goals", "shortTerm", {Items(0), Items(1)}),
                                        "goals", "longTerm", {Items(0), Items(2)}),
                               "goals", "parentGoals", {Items(0), Items(1)}),
                      "teacherNotes", "recommendedActions", {Items(0), Items(1)}),
             "teacherNotes", "motivationLevel", {"high", "medium", "low"})

InitGoals ==
    /\ grade_level_expectations = InitialExpectations
    /\ student_data \in GoalsProfiles
    /\ pc = "analyze_academic"
    /\ all_talking_points = << >>
    /\ categorized_points = NoValue
    /\ meeting_summary = NoValue
    /\ result = NoValue
    /\ exception = NoValue
    /\ calls = << >>
    /\ agenda = << >>

SpecGoals == InitGoals /\ [][Next]_vars

(***************************************************************************)
(* generate_meeting_agenda, called on the dict that a call returned.  The  *)
(* returned string is the sequence of its lines (it is split at each       *)
(* newline).  A TLA+ string holds no character beyond ASCII, so each       *)
(* glyph of the text is written as the name of its code point.             *)
(***************************************************************************)

\* U+1F534, U+1F7E1, U+1F7E2: the markers of high, medium and low priority
HighMarker == "(U+1F534)"
MediumMarker == "(U+1F7E1)"
LowMarker == "(U+1F7E2)"
\* " " and U+26A1: the marker of a point that requires action
ActionMarker == " (U+26A1)"
\* U+2022: the bullet of the overview lines
Bullet == "(U+2022)"

\* the line of one point: three blanks, priority marker, title, action marker
item_line(point) ==
    LET priority_marker == IF point.priority = "high" THEN HighMarker
                           ELSE IF point.priority = "medium" THEN MediumMarker
                           ELSE LowMarker
        action_marker == IF point.action_required THEN ActionMarker ELSE ""
    IN  "   " \o priority_marker \o " " \o point.title \o action_marker

\* the lines that one for loop adds, for the points of the list bucket
item_lines(bucket) == [ i \in 1..Len(bucket) |-> item_line(bucket[i]) ]

\* the lines up to the first section, from the meeting summary
agenda_head(summary) ==
    << "",
       "PARENT-TEACHER MEETING AGENDA",
       "Student: " \o summary.student_name \o " (Grade " \o summary.grade \o ")",
       "Date: " \o summary.meeting_date,
       "",
       "MEETING OVERVIEW:",
       Bullet \o " Total Discussion Points: " \o ToString(summary.total_talking_points),
       Bullet \o " High Priority Items: " \o ToString(summary.high_priority_items),
       Bullet \o " Action Items: " \o ToString(summary.action_items),
       "",
       "AGENDA ITEMS:",
       "" >>

\* the lines after the last section
agenda_foot(summary) ==
    << "",
       "OVERALL RECOMMENDATION:",
       summary.overall_recommendation,
       "",
       "LEGEND: " \o HighMarker \o " High Priority | " \o MediumMarker
           \o " Medium Priority | " \o LowMarker \o " Low Priority |" \o ActionMarker
           \o " Action Required" >>

\* mutant of generate_meeting_agenda: section 2 lists the social bucket before
\* the behavioral bucket
agenda_social_before_behavioral(talking_points_data) ==
    LET summary == talking_points_data.meeting_summary
        buckets == talking_points_data.talking_points_by_category
    IN  agenda_head(summary)
        \o << "1. ACADEMIC PERFORMANCE" >>
        \o item_lines(buckets["academic"])
        \o << "", "2. BEHAVIORAL & SOCIAL DEVELOPMENT" >>
        \o item_lines(buckets["social"] \o buckets["behavioral"])
        \o << "", "3. GOALS & ACTION PLAN" >>
        \o item_lines(buckets["goals"] \o buckets["recommendations"])
        \o agenda_foot(summary)

\* generate_meeting_agenda(talking_points_data)
generate_meeting_agenda(talking_points_data) ==
    LET summary == talking_points_data.meeting_summary
        buckets == talking_points_data.talking_points_by_category
    IN  agenda_head(summary)
        \o << "1. ACADEMIC PERFORMANCE" >>
        \o item_lines(buckets["academic"])
        \o << "", "2. BEHAVIORAL & SOCIAL DEVELOPMENT" >>
        \o item_lines(buckets["behavioral"] \o buckets["social"])
        \o << "", "3. GOALS & ACTION PLAN" >>
        \o item_lines(buckets["goals"] \o buckets["recommendations"])
        \o agenda_foot(summary)

\* the caller formats the dict that the call returned
GenerateMeetingAgenda ==
    /\ pc = "returned"
    /\ agenda' = generate_meeting_agenda(result)
    /\ pc' = "formatted"
    /\ UNCHANGED <<calls, grade_level_expectations, student_data, all_talking_points,
                   categorized_points, meeting_summary, result, exception>>

InitAgenda ==
    /\ grade_level_expectations = InitialExpectations
    /\ student_data \in ComposedProfiles
    /\ pc = "analyze_academic"
    /\ all_talking_points = << >>
    /\ categorized_points = NoValue
    /\ meeting_summary = NoValue
    /\ result = NoValue
    /\ exception = NoValue
    /\ calls = << >>
    /\ agenda = << >>

NextAgenda ==
    \/ Next
    \/ GenerateMeetingAgenda

SpecAgenda == InitAgenda /\ [][NextAgenda]_vars

(***************************************************************************)
(* One call whose every step is taken in the end: the method is            *)
(* straight-line code over finite lists, and nothing but the method runs.  *)
(***************************************************************************)

\* the composed profiles, the base profiles under other grades and without
\* subjects, and the profiles that lack an identity field
TerminationProfiles ==
    ComposedProfiles
    \cup WithEach(WithEach(BaseProfiles, "personalInfo", "grade", {"3", "5", "7"}),
                  "academicProfile", "subjects", { << >> })
    \cup RepeatedProfiles

InitTerminating ==
    /\ grade_level_expectations = InitialExpectations
    /\ student_data \in TerminationProfiles
    /\ pc = "analyze_academic"
    /\ all_talking_points = << >>
    /\ categorized_points = NoValue
    /\ meeting_summary = NoValue
    /\ result = NoValue
    /\ exception = NoValue
    /\ calls = << >>
    /\ agenda = << >>

SpecTerminating == InitTerminating /\ [][Next]_vars /\ WF_vars(Next)

(***************************************************************************)
(* Definitions shared by the properties below.                             *)
(***************************************************************************)

\* the evaluator outputs concatenated in the order Academic, Behavioral,
\* Social/Extracurricular, Parent-Engagement, Goals-and-Progress
Concatenation ==
    analyze_academic_performance(InitialExpectations, student_data)
    \o analyze_behavioral_profile(student_data)
    \o analyze_extracurricular_engagement(student_data)
    \o analyze_parent_engagement(student_data)
    \o analyze_goals_and_progress(student_data)

\* the rank the specification gives a priority
Rank(priority) == CASE priority = "high" -> 0 [] priority = "medium" -> 1 [] priority = "low" -> 2

Sorted == pc \in {"group", "summary", "return", "returned"}
Grouped == pc \in {"summary", "return", "returned"}
Summarized == pc \in {"return", "returned"}
Returned == pc = "returned"

\* the positions of seq whose element satisfies P
Positions(seq, P(_)) == { i \in 1..Len(seq) : P(seq[i]) }

\* sub is, element by element, F of the subsequence of seq made of the
\* elements that satisfy P, in order
IsMappedFilter(sub, seq, P(_), F(_)) ==
    LET pos == Positions(seq, P)
    IN  /\ Len(sub) = Cardinality(pos)
        /\ \A i \in pos : sub[Cardinality({ j \in pos : j <= i })] = F(seq[i])

\* sub is the subsequence of seq made of the elements that satisfy P, in order
IsFilter(sub, seq, P(_)) == IsMappedFilter(sub, seq, P, LAMBDA p : p)

\* the ranks of seq never decrease
RankMonotonic(seq) ==
    \A i \in 1..Len(seq) : \A j \in i..Len(seq) : Rank(seq[i].priority) <= Rank(seq[j].priority)

\* the number of points of seq that are both high-priority and action-required
HighActionIn(seq) == Cardinality(Positions(seq, LAMBDA p : p.priority = "high" /\ p.action_required))

HighActionCount == HighActionIn(all_talking_points)

FiveCategories == {"academic", "behavioral", "social", "goals", "recommendations"}

\* the dict a bucket holds for the point p: its fields but the category
DictOf(p) ==
    [ priority |-> p.priority, title |-> p.title,
      supporting_data |-> p.supporting_data, action_required |-> p.action_required ]

\* personalInfo.key is missing from the profile
Missing(key) ==
    \/ "personalInfo" \notin DOMAIN student_data
    \/ key \notin DOMAIN student_data.personalInfo

Recommendation == meeting_summary.overall_recommendation

FirstName == student_data.personalInfo.firstName

\* currentGPA, in hundredths, 0 when it is missing
CurrentGPA ==
    IF "academicProfile" \in DOMAIN student_data /\ "currentGPA" \in DOMAIN student_data.academicProfile
    THEN student_data.academicProfile.currentGPA
    ELSE 0

HasTitle(seq, title) == \E i \in 1..Len(seq) : seq[i].title = title

(***************************************************************************)
(* C1. After the sort, the sequence of all talking points has              *)
(* non-decreasing priority rank (high 0, medium 1, low 2), and the points  *)
(* of each priority are exactly the points of that priority of the         *)
(* evaluator concatenation, in the order they have there.                  *)
(***************************************************************************)
C1_SortedStable ==
    Sorted =>
        LET concatenation == Concatenation
        IN  /\ Len(all_talking_points) = Len(concatenation)
            /\ \A i \in 1..Len(all_talking_points) :
                   all_talking_points[i].priority \in {"high", "medium", "low"}
            /\ RankMonotonic(all_talking_points)
            /\ \A r \in 0..2 :
                   IsFilter(SelectSeq(all_talking_points, LAMBDA p : Rank(p.priority) = r),
                            concatenation, LAMBDA p : Rank(p.priority) = r)

\* the sort has moved a point across others, and two points of equal priority,
\* emitted by different evaluators, are in the sorted sequence
C1_Witness ==
    /\ pc = "group"
    /\ all_talking_points # Concatenation
    /\ \E i, j \in 1..Len(all_talking_points) :
           /\ i < j
           /\ all_talking_points[i].priority = all_talking_points[j].priority
           /\ all_talking_points[i].category # all_talking_points[j].category

(***************************************************************************)
(* C2. Each of the five buckets is the subsequence of the sorted sequence  *)
(* made of the points of its category (as dicts), in the same order; the   *)
(* rank never decreases inside a bucket, and the points of equal priority  *)
(* of a bucket are in the order of the evaluator concatenation.            *)
(***************************************************************************)
C2_BucketsAreSubsequences ==
    Grouped =>
        LET concatenation == Concatenation
        IN  /\ DOMAIN categorized_points = FiveCategories
            /\ \A c \in FiveCategories :
                   /\ IsMappedFilter(categorized_points[c], all_talking_points,
                                     LAMBDA p : p.category = c, DictOf)
                   /\ RankMonotonic(categorized_points[c])
                   /\ \A r \in 0..2 :
                          IsMappedFilter(
                              SelectSeq(categorized_points[c], LAMBDA d : Rank(d.priority) = r),
                              concatenation,
                              LAMBDA p : p.category = c /\ Rank(p.priority) = r, DictOf)
            /\ Returned => result.talking_points_by_category = categorized_points

\* a bucket holds two points that the sort has exchanged
C2_Witness ==
    /\ pc = "summary"
    /\ \E i, j \in 1..Len(Concatenation) :
           /\ i < j
           /\ Concatenation[i].category = Concatenation[j].category
           /\ Rank(Concatenation[i].priority) > Rank(Concatenation[j].priority)
           /\ Len(categorized_points[Concatenation[i].category]) >= 3

(***************************************************************************)
(* C3. total_talking_points is the sum of the lengths of the five          *)
(* evaluator outputs, every point has one of the five categories, and the  *)
(* five bucket lengths add up to total_talking_points.                     *)
(***************************************************************************)
C3_NothingLostOrDuplicated ==
    Summarized =>
        /\ meeting_summary.total_talking_points =
               Len(analyze_academic_performance(InitialExpectations, student_data))
               + Len(analyze_behavioral_profile(student_data))
               + Len(analyze_extracurricular_engagement(student_data))
               + Len(analyze_parent_engagement(student_data))
               + Len(analyze_goals_and_progress(student_data))
        /\ \A i \in 1..Len(all_talking_points) : all_talking_points[i].category \in FiveCategories
        /\ Len(categorized_points["academic"]) + Len(categorized_points["behavioral"])
           + Len(categorized_points["social"]) + Len(categorized_points["goals"])
           + Len(categorized_points["recommendations"])
           = meeting_summary.total_talking_points

\* an output with at least ten points and no empty bucket
C3_Witness ==
    /\ Returned
    /\ result.meeting_summary.total_talking_points >= 10
    /\ \A c \in FiveCategories : Len(result.talking_points_by_category[c]) >= 1

(***************************************************************************)
(* C4. With n the number of points that are high-priority and              *)
(* action-required: n >= 3 gives the multi-area message; otherwise         *)
(* currentGPA >= 3.5 and n <= 1 gives the performing-well message;         *)
(* otherwise n = 0 gives the excellent-work message; otherwise (also       *)
(* currentGPA >= 3.5 with n = 2) the targeted-support message.  Exactly    *)
(* one of the four messages is returned.                                   *)
(***************************************************************************)
C4_RecommendationLadder ==
    Summarized =>
        LET n == HighActionCount
            messages == { MultiAreaMessage(FirstName), PerformingWellMessage(FirstName),
                          ExcellentWorkMessage(FirstName), TargetedSupportMessage(FirstName) }
        IN  /\ n >= 3 => Recommendation = MultiAreaMessage(FirstName)
            /\ n < 3 /\ CurrentGPA >= 350 /\ n <= 1 =>
                   Recommendation = PerformingWellMessage(FirstName)
            /\ n < 3 /\ ~(CurrentGPA >= 350 /\ n <= 1) /\ n = 0 =>
                   Recommendation = ExcellentWorkMessage(FirstName)
            /\ n < 3 /\ ~(CurrentGPA >= 350 /\ n <= 1) /\ n # 0 =>
                   Recommendation = TargetedSupportMessage(FirstName)
            /\ CurrentGPA >= 350 /\ n = 2 => Recommendation = TargetedSupportMessage(FirstName)
            /\ Cardinality(messages) = 4
            /\ Cardinality({ m \in messages : Recommendation = m }) = 1

\* currentGPA >= 3.5 with exactly two high-priority action points
C4_Witness ==
    /\ Returned
    /\ CurrentGPA >= 350
    /\ HighActionCount = 2
    /\ result.meeting_summary.overall_recommendation = TargetedSupportMessage(FirstName)

(***************************************************************************)
(* C5 (Scenario E, as stated). When no evaluator produces a point that is  *)
(* both high-priority and action-required and currentGPA >= 3.5, the       *)
(* overall recommendation is the excellent-work message.                   *)
(***************************************************************************)
C5_ScenarioE_AsStated ==
    (Returned /\ HighActionIn(Concatenation) = 0 /\ CurrentGPA >= 350) =>
        result.meeting_summary.overall_recommendation = ExcellentWorkMessage(FirstName)

(***************************************************************************)
(* C5 (amended). When no evaluator produces a point that is both           *)
(* high-priority and action-required and currentGPA >= 3.5, the overall    *)
(* recommendation is the performing-well (continue-strategies) message:    *)
(* the GPA rung of the ladder is tested before the zero-issues rung.       *)
(***************************************************************************)
C5_ScenarioE_Amended ==
    (Returned /\ HighActionIn(Concatenation) = 0 /\ CurrentGPA >= 350) =>
        result.meeting_summary.overall_recommendation = PerformingWellMessage(FirstName)

\* an output for a profile with no high-priority action point and currentGPA >= 3.5
C5_Witness ==
    /\ Returned
    /\ HighActionIn(Concatenation) = 0
    /\ CurrentGPA >= 350
    /\ Len(all_talking_points) >= 2

(***************************************************************************)
(* C6 (Scenario D). Whenever at least three points are both high-priority  *)
(* and action-required, the overall recommendation is the multi-area       *)
(* intervention message, whatever the GPA and the other fields are.        *)
(***************************************************************************)
C6_ScenarioD ==
    (Summarized /\ HighActionIn(Concatenation) >= 3) =>
        Recommendation = MultiAreaMessage(FirstName)

\* the scenario's example: GPA below gpa_good, attendance below 0.90, concerns raised
C6_Witness ==
    /\ Returned
    /\ HasTitle(all_talking_points, "Academic Support Needed")
    /\ HasTitle(all_talking_points, "Attendance Concerns")
    /\ HasTitle(all_talking_points, "Addressing Parent Concerns")
    /\ HighActionCount = 3
    /\ result.meeting_summary.overall_recommendation = MultiAreaMessage(FirstName)

(***************************************************************************)
(* C7. The action_items list of the output is the subsequence of all       *)
(* talking points with action_required (of any priority, in sorted         *)
(* order), and its length is meeting_summary.action_items.                 *)
(***************************************************************************)
C7_ActionItems ==
    Returned =>
        /\ IsFilter(result.action_items, all_talking_points, LAMBDA p : p.action_required)
        /\ Len(result.action_items) = result.meeting_summary.action_items

\* the output lists action items of both priorities, next to points that need no action
C7_Witness ==
    /\ Returned
    /\ \E i, j \in 1..Len(result.action_items) :
           /\ result.action_items[i].priority = "high"
           /\ result.action_items[j].priority = "medium"
    /\ Len(result.action_items) < Len(all_talking_points)

(***************************************************************************)
(* C8. strengths_to_celebrate is the subsequence of all talking points     *)
(* with priority medium and not action_required; no low-priority and no    *)
(* high-priority point is ever in it.                                      *)
(***************************************************************************)
C8_StrengthsToCelebrate ==
    Returned =>
        /\ IsFilter(result.strengths_to_celebrate, all_talking_points,
                    LAMBDA p : p.priority = "medium" /\ ~p.action_required)
        /\ \A i \in 1..Len(result.strengths_to_celebrate) :
               result.strengths_to_celebrate[i].priority \notin {"low", "high"}

\* the low-priority, positive 'Excellent Attendance' point and the high-priority,
\* positive 'Excellent Academic Performance' point are left out of a non-empty list
C8_Witness ==
    /\ Returned
    /\ HasTitle(all_talking_points, "Excellent Attendance")
    /\ HasTitle(all_talking_points, "Excellent Academic Performance")
    /\ ~HasTitle(result.strengths_to_celebrate, "Excellent Attendance")
    /\ ~HasTitle(result.strengths_to_celebrate, "Excellent Academic Performance")
    /\ Len(result.strengths_to_celebrate) >= 1

(***************************************************************************)
(* C9. high_priority_items is the number of points with priority high,     *)
(* whatever their action_required; action_items is the number of points    *)
(* with action_required, whatever their priority.                          *)
(***************************************************************************)
C9_SummaryCounts ==
    Summarized =>
        /\ meeting_summary.high_priority_items =
               Cardinality(Positions(all_talking_points, LAMBDA p : p.priority = "high"))
        /\ meeting_summary.action_items =
               Cardinality(Positions(all_talking_points, LAMBDA p : p.action_required))

\* a high-priority point that needs no action and a medium-priority one that does
C9_Witness ==
    /\ pc = "return"
    /\ \E i, j \in 1..Len(all_talking_points) :
           /\ all_talking_points[i].priority = "high" /\ ~all_talking_points[i].action_required
           /\ all_talking_points[j].priority = "medium" /\ all_talking_points[j].action_required
    /\ meeting_summary.high_priority_items > HighActionCount
    /\ meeting_summary.action_items > HighActionCount

(***************************************************************************)
(* C10. When personalInfo.firstName, lastName or grade is missing, the     *)
(* call ends in an exception and returns nothing: no summary is built and  *)
(* no output exists, also when only grade is missing and every evaluator   *)
(* has run.  A missing firstName stops the call in the first evaluator.    *)
(***************************************************************************)
C10_MissingIdentityFails ==
    /\ Missing("firstName") =>
           /\ pc \in {"analyze_academic", "raised"}
           /\ all_talking_points = << >>
    /\ (Missing("firstName") \/ Missing("lastName") \/ Missing("grade")) =>
           /\ pc \notin {"return", "returned"}
           /\ meeting_summary = NoValue
           /\ result = NoValue
           /\ pc = "raised" =>
                  /\ exception.type = "KeyError"
                  /\ exception.key \in {"personalInfo", "firstName", "lastName", "grade"}
                  /\ exception.key = "personalInfo" \/ Missing(exception.key)

\* only grade is missing: every evaluator has run, the points are sorted and
\* grouped, and the call has ended in KeyError('grade')
C10_Witness ==
    /\ pc = "raised"
    /\ ~Missing("firstName") /\ ~Missing("lastName") /\ Missing("grade")
    /\ exception = [type |-> "KeyError", key |-> "grade"]
    /\ Len(all_talking_points) >= 3
    /\ categorized_points # NoValue
    /\ result = NoValue

(***************************************************************************)
(* Definitions shared by the properties on defaults and on repeated calls. *)
(***************************************************************************)

\* the evaluator outputs of the profile sd, concatenated in the fixed order
ConcatenationOf(sd) ==
    analyze_academic_performance(InitialExpectations, sd)
    \o analyze_behavioral_profile(sd)
    \o analyze_extracurricular_engagement(sd)
    \o analyze_parent_engagement(sd)
    \o analyze_goals_and_progress(sd)

\* what a call on the profile sd returns on a freshly constructed generator,
\* when the clock reads date
OutputOf(sd, date) ==
    LET points == sort_by_priority(ConcatenationOf(sd))
    IN  build_result(sd, points, group_by_category(points),
                     build_meeting_summary(sd, points, date))

\* the subjects mapping with every missing key of a subject record put in
FilledSubjects(subjects) ==
    [ i \in 1..Len(subjects) |->
        << subjects[i][1],
           subjects[i][2] @@ [trend |-> "stable", averageScore |-> 0, currentGrade |-> ""] >> ]

\* the profile sd with every missing optional section and every missing optional
\* field put in with its documented default
Filled(sd) ==
    LET academic == Get(sd, "academicProfile", EmptyDict)
                    @@ [currentGPA |-> 0, subjects |-> << >>, strengths |-> << >>,
                        areasForImprovement |-> << >>]
        behavioral == Get(sd, "behavioralProfile", EmptyDict)
                      @@ [participation |-> EmptyDict, socialSkills |-> EmptyDict,
                          attendance |-> EmptyDict]
    IN  [ personalInfo |-> sd["personalInfo"],
          academicProfile |-> [academic EXCEPT !["subjects"] = FilledSubjects(@)],
          behavioralProfile |->
              [behavioral EXCEPT
                  !["participation"] = @ @@ [level |-> "medium"],
                  !["socialSkills"] = @ @@ [peerInteraction |-> "good", teamwork |-> "good"],
                  !["attendance"] = @ @@ [attendanceRate |-> 0, tardyCount |-> 0]],
          extracurricular |->
              Get(sd, "extracurricular", EmptyDict)
              @@ [sports |-> << >>, clubs |-> << >>, achievements |-> << >>, volunteerHours |-> 0],
          parentEngagement |->
              Get(sd, "parentEngagement", EmptyDict)
              @@ [communicationFrequency |-> "medium", homeworkSupport |-> "good",
                  concernsRaised |-> << >>],
          goals |->
              Get(sd, "goals", EmptyDict)
              @@ [shortTerm |-> << >>, longTerm |-> << >>, parentGoals |-> << >>],
          teacherNotes |->
              Get(sd, "teacherNotes", EmptyDict)
              @@ [recommendedActions |-> << >>, motivationLevel |-> "medium"] ]

IdentityPresent == ~Missing("firstName") /\ ~Missing("lastName") /\ ~Missing("grade")

\* sd[section][key][subkey] is missing at some level
MissingNested(sd, section, key, subkey) ==
    \/ section \notin DOMAIN sd
    \/ key \notin DOMAIN sd[section]
    \/ subkey \notin DOMAIN sd[section][key]

\* sd[section][key] is missing at some level
MissingField(sd, section, key) ==
    \/ section \notin DOMAIN sd
    \/ key \notin DOMAIN sd[section]

ResultKeys == {"meeting_summary", "talking_points_by_category", "action_items",
               "strengths_to_celebrate", "student_data_summary"}

(***************************************************************************)
(* C11 (as stated). For every profile with the identity fields the call    *)
(* returns a complete output and no error, and the output is the one of    *)
(* the profile in which every missing optional field has its default (GPA  *)
(* 0, attendance rate 0, tardy count 0, participation medium, social       *)
(* skills good, communication medium, homework support good, motivation    *)
(* medium, empty lists).                                                   *)
(***************************************************************************)
C11_DefaultsEverywhere_AsStated ==
    IdentityPresent =>
        /\ pc # "raised"
        /\ Returned =>
               result = OutputOf(Filled(student_data), result.meeting_summary.meeting_date)

(***************************************************************************)
(* C11 (amended). For every profile with the identity fields the call      *)
(* returns a complete output (five top-level keys, five buckets) and no    *)
(* error; the meeting summary, the buckets, action_items and               *)
(* strengths_to_celebrate are those of the profile in which every missing  *)
(* optional field has its documented default; student_data_summary is      *)
(* that too, except that it reports a missing participation level and a    *)
(* missing communication frequency as "unknown", not as "medium".          *)
(***************************************************************************)
C11_DefaultsInEvaluators ==
    IdentityPresent =>
        /\ pc # "raised"
        /\ exception = NoValue
        /\ Returned =>
               LET expected == OutputOf(Filled(student_data), result.meeting_summary.meeting_date)
               IN  /\ DOMAIN result = ResultKeys
                   /\ DOMAIN result.talking_points_by_category = FiveCategories
                   /\ result.meeting_summary = expected.meeting_summary
                   /\ result.talking_points_by_category = expected.talking_points_by_category
                   /\ result.action_items = expected.action_items
                   /\ result.strengths_to_celebrate = expected.strengths_to_celebrate
                   /\ result.student_data_summary =
                          [expected.student_data_summary EXCEPT
                              !.participation_level =
                                  IF MissingNested(student_data, "behavioralProfile", "participation", "level")
                                  THEN "unknown" ELSE @,
                              !.communication_frequency =
                                  IF MissingField(student_data, "parentEngagement", "communicationFrequency")
                                  THEN "unknown" ELSE @]

\* an output for a profile that lacks whole sections and, inside a section that
\* is there, a nested field
C11_Witness ==
    /\ Returned
    /\ "goals" \notin DOMAIN student_data
    /\ "behavioralProfile" \in DOMAIN student_data
    /\ "attendance" \in DOMAIN student_data.behavioralProfile
    /\ "attendanceRate" \notin DOMAIN student_data.behavioralProfile.attendance
    /\ HasTitle(result.talking_points_by_category["behavioral"], "Attendance Concerns")
    /\ result.student_data_summary.participation_level = "unknown"

\* the output r without its meeting_date (r itself when nothing was returned)
SansDate(r) ==
    IF r = NoValue THEN r
    ELSE [r EXCEPT !.meeting_summary = DictDel(@, "meeting_date")]

\* how the call in progress ended, in the shape of an element of calls
CallEnded == pc \in {"returned", "raised"}
ThisCall == [student_data |-> student_data, result |-> result, exception |-> exception]
EndedCalls == IF CallEnded THEN Append(calls, ThisCall) ELSE calls

(***************************************************************************)
(* C12. Any two calls on one generator instance that were given the same   *)
(* profile ended the same way: both raised the same error or both returned *)
(* outputs that are equal once meeting_date is left out, whatever calls on *)
(* other profiles were made between them; what a call returns is what a    *)
(* freshly constructed generator returns; and the grade expectation table  *)
(* is at every moment the one that the constructor built.                  *)
(***************************************************************************)
C12_Deterministic ==
    /\ grade_level_expectations = InitialExpectations
    /\ \A i, j \in 1..Len(EndedCalls) :
           EndedCalls[i].student_data = EndedCalls[j].student_data =>
               /\ SansDate(EndedCalls[i].result) = SansDate(EndedCalls[j].result)
               /\ EndedCalls[i].exception = EndedCalls[j].exception
    /\ Returned => result = OutputOf(student_data, result.meeting_summary.meeting_date)

\* the third call on an instance returns for the profile of the first call, on
\* another date, after a call on another profile; the profile's grade is not in
\* the table, so each of its calls took the fallback entry
C12_Witness ==
    /\ Returned
    /\ Len(calls) = 2
    /\ calls[1].student_data = student_data
    /\ calls[2].student_data # student_data
    /\ calls[1].result # NoValue
    /\ calls[1].result.meeting_summary.meeting_date # result.meeting_summary.meeting_date
    /\ student_data.personalInfo.grade \notin DOMAIN InitialExpectations

\* how many times p occurs in seq
CountIn(seq, p) == Cardinality({ i \in 1..Len(seq) : seq[i] = p })

\* b holds the elements of a, each as many times as a does, in some order
IsReordering(a, b) ==
    /\ Len(a) = Len(b)
    /\ \A i \in 1..Len(a) : CountIn(a, a[i]) = CountIn(b, a[i])

\* a is a prefix of b
IsPrefix(a, b) ==
    /\ Len(a) <= Len(b)
    /\ \A i \in 1..Len(a) : a[i] = b[i]

(***************************************************************************)
(* C13. No step of generate_talking_points changes the profile; a step of  *)
(* an evaluator only appends points to the list (the points already there  *)
(* stay as they are), the sort only reorders the list, and no later step   *)
(* changes the list; every entry of a bucket, of action_items and of       *)
(* strengths_to_celebrate is the copy of a point of the list, and a bucket *)
(* once built does not change.                                             *)
(***************************************************************************)
C13_Frame ==
    [][ /\ student_data' = student_data
        /\ pc \in {"analyze_academic", "analyze_behavioral", "analyze_extracurricular",
                   "analyze_parent", "analyze_goals"}
               => IsPrefix(all_talking_points, all_talking_points')
        /\ pc = "sort" => IsReordering(all_talking_points, all_talking_points')
        /\ Sorted => all_talking_points' = all_talking_points
        /\ pc = "group" =>
               \A c \in DOMAIN categorized_points' :
                   \A i \in 1..Len(categorized_points'[c]) :
                       \E k \in 1..Len(all_talking_points) :
                           categorized_points'[c][i] = DictOf(all_talking_points[k])
        /\ Grouped => categorized_points' = categorized_points
        /\ pc = "return" =>
               \A key \in {"action_items", "strengths_to_celebrate"} :
                   \A i \in 1..Len(result'[key]) :
                       \E k \in 1..Len(all_talking_points) :
                           result'[key][i] = all_talking_points[k]
      ]_vars

\* an output whose list the sort has reordered, for a profile with all sections
C13_Witness ==
    /\ Returned
    /\ all_talking_points # Concatenation
    /\ IsReordering(Concatenation, all_talking_points)
    /\ DOMAIN student_data = { Sections[i] : i \in 1..Len(Sections) }
    /\ \E c \in FiveCategories : Len(result.talking_points_by_category[c]) >= 2

(***************************************************************************)
(* Definitions shared by the properties of the academic evaluator.         *)
(***************************************************************************)

\* the academic evaluator has run on the profile of this call
AcademicDone == pc # "analyze_academic" /\ ~Missing("firstName")

GPATitles == {"Excellent Academic Performance", "Solid Academic Performance",
              "Academic Support Needed"}

IsGPAPoint(p) == p.category = "academic" /\ p.title \in GPATitles

\* the GPA points of the list, in a set
GPAPoints == { all_talking_points[i] : i \in Positions(all_talking_points, IsGPAPoint) }

\* the profile's grade and GPA as the documented defaults complete them
GradeOrFive == IF Missing("grade") THEN "5" ELSE student_data.personalInfo.grade
GPAOrZero ==
    IF MissingField(student_data, "academicProfile", "currentGPA") THEN 0
    ELSE student_data.academicProfile.currentGPA

TableGrades == {"3", "4", "5", "6"}

\* the grade is absent from the profile, or it is none of the table's keys
GradeAbsentOrUnknown ==
    \/ Missing("grade")
    \/ student_data.personalInfo.grade \notin TableGrades

\* the GPA point that the thresholds excellent and good give for the GPA gpa
ClassifiedGPA(gpa, excellent, good) ==
    IF gpa >= excellent
    THEN TalkingPoint("academic", "high", "Excellent Academic Performance",
                      [gpa |-> gpa, expectation |-> excellent], FALSE)
    ELSE IF gpa >= good
    THEN TalkingPoint("academic", "medium", "Solid Academic Performance",
                      [gpa |-> gpa, expectation |-> good], FALSE)
    ELSE TalkingPoint("academic", "high", "Academic Support Needed",
                      [gpa |-> gpa, expectation |-> good], TRUE)

(***************************************************************************)
(* C14. For a profile whose grade is absent or is none of "3", "4", "5",   *)
(* "6" the academic evaluator classifies the GPA against 3.7 and 3.2, the  *)
(* thresholds of grade 5; it does not fail (the only error of a call with  *)
(* a first name is the later read of a missing grade or last name by the   *)
(* meeting summary), and the table is never modified.                      *)
(***************************************************************************)
C14_GradeFallback ==
    /\ grade_level_expectations = InitialExpectations
    /\ (pc = "raised" /\ ~Missing("firstName")) =>
           /\ categorized_points # NoValue
           /\ exception.key \in {"lastName", "grade"}
    /\ (AcademicDone /\ GradeAbsentOrUnknown) =>
           GPAPoints = { ClassifiedGPA(GPAOrZero, 370, 320) }

\* a profile without a grade and with a GPA of 3.7: the thresholds of grade 5
\* make it excellent against 3.7, those of grade 6 would make it solid, and
\* those of grades 3 and 4 excellent against 3.5 and 3.6; the call fails only
\* in the meeting summary
C14_Witness ==
    /\ pc = "raised"
    /\ exception.key = "grade"
    /\ Missing("grade")
    /\ GPAOrZero = 370
    /\ GPAPoints = { TalkingPoint("academic", "high", "Excellent Academic Performance",
                                  [gpa |-> 370, expectation |-> 370], FALSE) }

(***************************************************************************)
(* C15. The academic evaluator emits exactly one GPA point: excellent      *)
(* (high, no action) when the GPA reaches gpa_excellent of the grade, else *)
(* solid (medium, no action) when it reaches gpa_good, else support needed *)
(* (high, action required); supporting_data holds the GPA and the          *)
(* threshold compared against; grade "5" with GPA 3.9 gives the excellent  *)
(* point with expectation 3.7.                                             *)
(***************************************************************************)
C15_OneGPAPoint ==
    AcademicDone =>
        /\ Cardinality(Positions(all_talking_points, IsGPAPoint)) = 1
        /\ GradeOrFive \in TableGrades =>
               GPAPoints = { ClassifiedGPA(GPAOrZero,
                                           InitialExpectations[GradeOrFive].gpa_excellent,
                                           InitialExpectations[GradeOrFive].gpa_good) }
        /\ (GradeOrFive = "5" /\ GPAOrZero = 390) =>
               GPAPoints = { TalkingPoint("academic", "high", "Excellent Academic Performance",
                                          [gpa |-> 390, expectation |-> 370], FALSE) }

\* Scenario A: the output for grade "5" and GPA 3.9
C15_Witness ==
    /\ Returned
    /\ ~Missing("grade")
    /\ student_data.personalInfo.grade = "5"
    /\ GPAOrZero = 390
    /\ HasTitle(result.talking_points_by_category["academic"], "Excellent Academic Performance")

\* the subjects mapping of the profile
SubjectsOf(sd) == Get(Get(sd, "academicProfile", EmptyDict), "subjects", << >>)

\* the points of the list that are about the subject
SubjectPointsOf(subject) ==
    { i \in 1..Len(all_talking_points) :
          /\ all_talking_points[i].category = "academic"
          /\ "subject" \in DOMAIN all_talking_points[i].supporting_data
          /\ all_talking_points[i].supporting_data.subject = subject }

(***************************************************************************)
(* C17. For each subject of the profile the list holds one point, medium   *)
(* and without action, when the trend is improving; one point, high and    *)
(* action-required, when the trend is declining and the average score is   *)
(* below 75; and no point otherwise (declining with a score of 75 or more, *)
(* stable). A missing trend counts as stable and a missing score as 0.     *)
(***************************************************************************)
C17_SubjectPoints ==
    AcademicDone =>
        \A n \in 1..Len(SubjectsOf(student_data)) :
            LET subject == SubjectsOf(student_data)[n][1]
                data == SubjectsOf(student_data)[n][2]
                trend == Get(data, "trend", "stable")
                score == Get(data, "averageScore", 0)
                points == SubjectPointsOf(subject)
            IN  /\ Cardinality(points) <= 1
                /\ trend = "improving" =>
                       /\ Cardinality(points) = 1
                       /\ \A i \in points :
                              /\ all_talking_points[i].priority = "medium"
                              /\ ~all_talking_points[i].action_required
                              /\ all_talking_points[i].title = "Improvement in " \o Title(subject)
                /\ (trend = "declining" /\ score < 75) =>
                       /\ Cardinality(points) = 1
                       /\ \A i \in points :
                              /\ all_talking_points[i].priority = "high"
                              /\ all_talking_points[i].action_required
                              /\ all_talking_points[i].title = "Concerns in " \o Title(subject)
                /\ (trend # "improving" /\ ~(trend = "declining" /\ score < 75)) =>
                       points = {}

\* an output for two subjects: one declining at exactly 75, with no point, and
\* one declining at 74, with its concern, titled with the subject name in title case
C17_Witness ==
    /\ Returned
    /\ Len(SubjectsOf(student_data)) = 2
    /\ SubjectsOf(student_data)[1][2] = [trend |-> "declining", averageScore |-> 75, currentGrade |-> "B"]
    /\ SubjectsOf(student_data)[2][2] = [trend |-> "declining", averageScore |-> 74, currentGrade |-> "B"]
    /\ SubjectPointsOf(SubjectsOf(student_data)[1][1]) = {}
    /\ SubjectPointsOf(SubjectsOf(student_data)[2][1]) # {}
    /\ HasTitle(all_talking_points, "Concerns in Mathematics")

\* p is the point of a subject
IsSubjectPoint(p) == p.category = "academic" /\ "subject" \in DOMAIN p.supporting_data

\* the titles of the points of the documented order, slot by slot: the four
\* slots of Academic (the second one, the subjects, is told by IsSubjectPoint),
\* the four of Behavioral, the three of Social/Extracurricular, the three of
\* Parent-Engagement and the four of Goals-and-Progress
EmissionSlots ==
    << GPATitles,
       {},
       {"Academic Strengths"},
       {"Growth Opportunities"},
       {"Excellent Class Participation", "Encouraging Participation"},
       {"Strong Social Skills", "Social Skills Development"},
       {"Excellent Attendance", "Attendance Concerns"},
       {"Punctuality"},
       {"Well-Rounded Engagement", "Extracurricular Opportunities"},
       {"Recognition and Achievements"},
       {"Community Service"},
       {"Strong Parent Partnership", "Increasing Communication"},
       {"Homework Support", "Homework Partnership"},
       {"Addressing Parent Concerns"},
       {"Short-term Goals Progress"},
       {"Long-term Vision"},
       {"Action Plan"},
       {"Motivation Strategies"} >>

\* the slot of the point p (0 for a point of no documented slot)
\* the slot of each title of the documented order
SlotOfTitle ==
    [ title \in UNION { EmissionSlots[k] : k \in 1..Len(EmissionSlots) } |->
          CHOOSE k \in 1..Len(EmissionSlots) : title \in EmissionSlots[k] ]

SlotOf(p) ==
    IF IsSubjectPoint(p) THEN 2
    ELSE IF p.title \in DOMAIN SlotOfTitle THEN SlotOfTitle[p.title]
    ELSE 0

\* the place in the subjects mapping of the subject that the point p is about
SubjectIndexOf(p) ==
    CHOOSE n \in 1..Len(SubjectsOf(student_data)) :
        SubjectsOf(student_data)[n][1] = p.supporting_data.subject

\* the list is as the evaluators left it: the sort has not run
Unsorted == pc \in {"analyze_academic", "analyze_behavioral", "analyze_extracurricular",
                    "analyze_parent", "analyze_goals", "sort"}

(***************************************************************************)
(* C16. Before the sort, the points of the list stand in the documented    *)
(* order: of two points the earlier one has the earlier slot (Academic:    *)
(* GPA, subjects, strengths, areas for improvement; Behavioral:            *)
(* participation, social skills, attendance, tardiness; Social/            *)
(* Extracurricular: activity count, achievements, volunteer hours;         *)
(* Parent-Engagement: communication, homework support, concerns; Goals-    *)
(* and-Progress: short-term, long-term, recommended actions, motivation),  *)
(* and of two subject points the earlier one is about the subject that is  *)
(* earlier in the subjects mapping.                                        *)
(***************************************************************************)
C16_EmissionOrder ==
    Unsorted =>
        \A i, j \in 1..Len(all_talking_points) :
            i < j =>
                LET p == all_talking_points[i]
                    q == all_talking_points[j]
                IN  /\ SlotOf(p) # 0
                    /\ SlotOf(q) # 0
                    /\ SlotOf(p) <= SlotOf(q)
                    /\ SlotOf(p) = SlotOf(q) =>
                           /\ IsSubjectPoint(p)
                           /\ IsSubjectPoint(q)
                           /\ SubjectIndexOf(p) < SubjectIndexOf(q)

\* all five evaluators have run and the list, not yet sorted, holds two subject
\* points, both academic list points and the last point of every evaluator
C16_Witness ==
    /\ pc = "sort"
    /\ Cardinality(Positions(all_talking_points, IsSubjectPoint)) >= 2
    /\ HasTitle(all_talking_points, "Academic Strengths")
    /\ HasTitle(all_talking_points, "Growth Opportunities")
    /\ HasTitle(all_talking_points, "Punctuality")
    /\ HasTitle(all_talking_points, "Community Service")
    /\ HasTitle(all_talking_points, "Addressing Parent Concerns")
    /\ HasTitle(all_talking_points, "Motivation Strategies")

(***************************************************************************)
(* Definitions shared by the properties of single evaluation steps.        *)
(***************************************************************************)

\* the behavioral evaluator has run on the profile of this call
BehavioralDone == pc \notin {"analyze_academic", "analyze_behavioral"} /\ ~Missing("firstName")

\* the extracurricular evaluator has run on the profile of this call
ExtracurricularDone ==
    pc \notin {"analyze_academic", "analyze_behavioral", "analyze_extracurricular"}
    /\ ~Missing("firstName")

\* how many points of the list have the title
CountTitled(title) ==
    Cardinality(Positions(all_talking_points, LAMBDA p : p.title = title))

\* the list holds exactly one point of the title, and it is of this category
\* and priority and needs action or not as said
OnePoint(title, category, priority, action_required) ==
    /\ CountTitled(title) = 1
    /\ \A i \in 1..Len(all_talking_points) :
           all_talking_points[i].title = title =>
               /\ all_talking_points[i].category = category
               /\ all_talking_points[i].priority = priority
               /\ all_talking_points[i].action_required = action_required

\* the titles of the dicts of a bucket, in order
TitlesOf(bucket) == [ i \in 1..Len(bucket) |-> bucket[i].title ]

BehavioralOf(sd) == Get(sd, "behavioralProfile", EmptyDict)
AttendanceOf(sd) == Get(BehavioralOf(sd), "attendance", EmptyDict)
AttendanceRate == Get(AttendanceOf(student_data), "attendanceRate", 0)
TardyCount == Get(AttendanceOf(student_data), "tardyCount", 0)

(***************************************************************************)
(* C18. The list holds one 'Excellent Attendance' point (behavioral, low,  *)
(* no action) if and only if the attendance rate is at least 0.98; one     *)
(* 'Attendance Concerns' point (behavioral, high, action required) if and  *)
(* only if the rate is below 0.90; neither for a rate in [0.90, 0.98); and *)
(* one 'Punctuality' point (behavioral, medium, action required) if and    *)
(* only if the tardy count is above 5, whatever the rate. For a profile    *)
(* whose behavioral section holds nothing but an attendance rate of 0.85   *)
(* the behavioral bucket holds exactly one point, 'Attendance Concerns'.   *)
(* A missing rate counts as 0 and a missing tardy count as 0.              *)
(***************************************************************************)
C18_Attendance ==
    BehavioralDone =>
        /\ IF AttendanceRate >= 98
           THEN OnePoint("Excellent Attendance", "behavioral", "low", FALSE)
           ELSE CountTitled("Excellent Attendance") = 0
        /\ IF AttendanceRate < 90
           THEN OnePoint("Attendance Concerns", "behavioral", "high", TRUE)
           ELSE CountTitled("Attendance Concerns") = 0
        /\ IF TardyCount > 5
           THEN OnePoint("Punctuality", "behavioral", "medium", TRUE)
           ELSE CountTitled("Punctuality") = 0
        /\ (Grouped /\ BehavioralOf(student_data) = [attendance |-> [attendanceRate |-> 85]]) =>
               categorized_points["behavioral"] =
                   << [priority |-> "high", title |-> "Attendance Concerns",
                       supporting_data |-> [attendance_rate |-> 85, tardy_count |-> 0],
                       action_required |-> TRUE] >>

\* Scenario B in an output: the behavioral section holds nothing but the rate 0.85
C18_Witness ==
    /\ Returned
    /\ BehavioralOf(student_data) = [attendance |-> [attendanceRate |-> 85]]
    /\ TitlesOf(result.talking_points_by_category["behavioral"]) = << "Attendance Concerns" >>

SocialSkillsOf(sd) == Get(BehavioralOf(sd), "socialSkills", EmptyDict)
PeerInteraction == Get(SocialSkillsOf(student_data), "peerInteraction", "good")
Teamwork == Get(SocialSkillsOf(student_data), "teamwork", "good")

(***************************************************************************)
(* C19. For every pair (peerInteraction, teamwork) of excellent, good,     *)
(* needs_improvement, the list holds one 'Strong Social Skills' point      *)
(* (social, medium, no action) if and only if both are excellent, one      *)
(* 'Social Skills Development' point (social, medium, action required) if  *)
(* and only if at least one is needs_improvement, and never both: the      *)
(* if/elif of the step gives what its two conditions give when each is     *)
(* evaluated on its own. A missing skill counts as good.                   *)
(***************************************************************************)
C19_SocialSkills ==
    BehavioralDone =>
        /\ IF PeerInteraction = "excellent" /\ Teamwork = "excellent"
           THEN OnePoint("Strong Social Skills", "social", "medium", FALSE)
           ELSE CountTitled("Strong Social Skills") = 0
        /\ IF PeerInteraction = "needs_improvement" \/ Teamwork = "needs_improvement"
           THEN OnePoint("Social Skills Development", "social", "medium", TRUE)
           ELSE CountTitled("Social Skills Development") = 0
        /\ CountTitled("Strong Social Skills") + CountTitled("Social Skills Development") <= 1

\* an output for the pair (excellent, needs_improvement), where the first
\* condition fails on its second half and the second condition holds
C19_Witness ==
    /\ Returned
    /\ SocialSkillsOf(student_data) = [peerInteraction |-> "excellent", teamwork |-> "needs_improvement"]
    /\ HasTitle(result.talking_points_by_category["social"], "Social Skills Development")
    /\ ~HasTitle(result.talking_points_by_category["social"], "Strong Social Skills")

ExtracurricularOf(sd) == Get(sd, "extracurricular", EmptyDict)
TotalActivities ==
    Len(Get(ExtracurricularOf(student_data), "sports", << >>))
    + Len(Get(ExtracurricularOf(student_data), "clubs", << >>))

(***************************************************************************)
(* C20. With the total of activities the number of sports plus the number  *)
(* of clubs (a missing list, or a missing extracurricular section, counts  *)
(* as empty), the list holds one 'Well-Rounded Engagement' point (social,  *)
(* medium) if and only if the total is at least 3, one 'Extracurricular    *)
(* Opportunities' point (social, low, no action) if and only if the total  *)
(* is 0, and neither for 1 or 2; for a profile that holds, besides its     *)
(* identity, nothing but empty sports and clubs, the social bucket holds   *)
(* exactly the 'Extracurricular Opportunities' point.                      *)
(***************************************************************************)
C20_ActivityCount ==
    ExtracurricularDone =>
        /\ IF TotalActivities >= 3
           THEN OnePoint("Well-Rounded Engagement", "social", "medium", FALSE)
           ELSE CountTitled("Well-Rounded Engagement") = 0
        /\ IF TotalActivities = 0
           THEN OnePoint("Extracurricular Opportunities", "social", "low", FALSE)
           ELSE CountTitled("Extracurricular Opportunities") = 0
        /\ (/\ Grouped
            /\ DOMAIN student_data = {"personalInfo", "extracurricular"}
            /\ student_data.extracurricular = [sports |-> << >>, clubs |-> << >>]) =>
               categorized_points["social"] =
                   << [priority |-> "low", title |-> "Extracurricular Opportunities",
                       supporting_data |-> [total_activities |-> 0],
                       action_required |-> FALSE] >>

\* Scenario C in an output
C20_Witness ==
    /\ Returned
    /\ DOMAIN student_data = {"personalInfo", "extracurricular"}
    /\ student_data.extracurricular = [sports |-> << >>, clubs |-> << >>]
    /\ TitlesOf(result.talking_points_by_category["social"]) = << "Extracurricular Opportunities" >>

\* the parent-engagement evaluator has run on the profile of this call
ParentDone ==
    pc \notin {"analyze_academic", "analyze_behavioral", "analyze_extracurricular",
               "analyze_parent"}
    /\ ~Missing("firstName")

ParentEngagementOf(sd) == Get(sd, "parentEngagement", EmptyDict)
CommunicationFrequency == Get(ParentEngagementOf(student_data), "communicationFrequency", "medium")
HomeworkSupport == Get(ParentEngagementOf(student_data), "homeworkSupport", "good")
ConcernsRaised == Get(ParentEngagementOf(student_data), "concernsRaised", << >>)

ParentTitles == {"Strong Parent Partnership", "Increasing Communication", "Homework Support",
                 "Homework Partnership", "Addressing Parent Concerns"}

\* how many points of the list the parent-engagement evaluator made
ParentPointCount ==
    Cardinality(Positions(all_talking_points, LAMBDA p : p.title \in ParentTitles))

(***************************************************************************)
(* C21. The parent-engagement evaluator's points are all of category       *)
(* goals: for communicationFrequency one low, non-action point when high,  *)
(* one medium, action-required point when low, none otherwise; for         *)
(* homeworkSupport one low, non-action point when excellent, one medium,   *)
(* action-required point when needs_improvement, none otherwise; one high, *)
(* action-required point if and only if concernsRaised is not empty. Each  *)
(* check decides on its own field alone, so the evaluator makes between 0  *)
(* and 3 points. A missing field counts as medium, good, empty.            *)
(***************************************************************************)
C21_ParentEngagement ==
    ParentDone =>
        /\ IF CommunicationFrequency = "high"
           THEN OnePoint("Strong Parent Partnership", "goals", "low", FALSE)
           ELSE CountTitled("Strong Parent Partnership") = 0
        /\ IF CommunicationFrequency = "low"
           THEN OnePoint("Increasing Communication", "goals", "medium", TRUE)
           ELSE CountTitled("Increasing Communication") = 0
        /\ IF HomeworkSupport = "excellent"
           THEN OnePoint("Homework Support", "goals", "low", FALSE)
           ELSE CountTitled("Homework Support") = 0
        /\ IF HomeworkSupport = "needs_improvement"
           THEN OnePoint("Homework Partnership", "goals", "medium", TRUE)
           ELSE CountTitled("Homework Partnership") = 0
        /\ IF ConcernsRaised # << >>
           THEN OnePoint("Addressing Parent Concerns", "goals", "high", TRUE)
           ELSE CountTitled("Addressing Parent Concerns") = 0
        /\ ParentPointCount \in 0..3

\* an output with three parent-engagement points: low communication, homework
\* support that needs improvement, and a concern
C21_Witness ==
    /\ Returned
    /\ CommunicationFrequency = "low"
    /\ HomeworkSupport = "needs_improvement"
    /\ ConcernsRaised # << >>
    /\ ParentPointCount = 3
    /\ HasTitle(result.talking_points_by_category["goals"], "Addressing Parent Concerns")
    /\ HasTitle(result.action_items, "Homework Partnership")

\* the goals evaluator has run on the profile of this call
GoalsDone ==
    pc \notin {"analyze_academic", "analyze_behavioral", "analyze_extracurricular",
               "analyze_parent", "analyze_goals"}
    /\ ~Missing("firstName")

GoalsOf(sd) == Get(sd, "goals", EmptyDict)
TeacherNotesOf(sd) == Get(sd, "teacherNotes", EmptyDict)
ShortTerm == Get(GoalsOf(student_data), "shortTerm", << >>)
LongTerm == Get(GoalsOf(student_data), "longTerm", << >>)
ParentGoals == Get(GoalsOf(student_data), "parentGoals", << >>)
RecommendedActions == Get(TeacherNotesOf(student_data), "recommendedActions", << >>)
MotivationLevel == Get(TeacherNotesOf(student_data), "motivationLevel", "medium")

GoalsTitles == {"Short-term Goals Progress", "Long-term Vision", "Action Plan",
                "Motivation Strategies"}

\* how many points of the list the goals-and-progress evaluator made
GoalsPointCount ==
    Cardinality(Positions(all_talking_points, LAMBDA p : p.title \in GoalsTitles))

\* 1 if the condition holds, else 0
Indicator(condition) == IF condition THEN 1 ELSE 0

(***************************************************************************)
(* C22. The goals-and-progress evaluator makes one high, action-required   *)
(* goals point if and only if shortTerm is not empty, one medium,          *)
(* non-action goals point if and only if longTerm is not empty, one high,  *)
(* action-required recommendations point if and only if                    *)
(* recommendedActions is not empty, and one high, action-required          *)
(* recommendations point if and only if motivationLevel is low; it makes   *)
(* no other point, so parentGoals never produces one.                      *)
(***************************************************************************)
C22_GoalsAndProgress ==
    GoalsDone =>
        /\ IF ShortTerm # << >>
           THEN OnePoint("Short-term Goals Progress", "goals", "high", TRUE)
           ELSE CountTitled("Short-term Goals Progress") = 0
        /\ IF LongTerm # << >>
           THEN OnePoint("Long-term Vision", "goals", "medium", FALSE)
           ELSE CountTitled("Long-term Vision") = 0
        /\ IF RecommendedActions # << >>
           THEN OnePoint("Action Plan", "recommendations", "high", TRUE)
           ELSE CountTitled("Action Plan") = 0
        /\ IF MotivationLevel = "low"
           THEN OnePoint("Motivation Strategies", "recommendations", "high", TRUE)
           ELSE CountTitled("Motivation Strategies") = 0
        /\ Len(all_talking_points) =
               Len(analyze_academic_performance(InitialExpectations, student_data))
               + Len(analyze_behavioral_profile(student_data))
               + Len(analyze_extracurricular_engagement(student_data))
               + Len(analyze_parent_engagement(student_data))
               + Indicator(ShortTerm # << >>) + Indicator(LongTerm # << >>)
               + Indicator(RecommendedActions # << >>) + Indicator(MotivationLevel = "low")

\* an output for a profile whose only goals are the parents' goals: the goals
\* evaluator has made no point
C22_Witness ==
    /\ Returned
    /\ ParentGoals # << >>
    /\ ShortTerm = << >>
    /\ LongTerm = << >>
    /\ "goals" \in DOMAIN student_data
    /\ GoalsPointCount = 0
    /\ result.talking_points_by_category["recommendations"] = << >>

\* generate_meeting_agenda has run on the output of this call
Formatted == pc = "formatted"

\* the places of the agenda where the line stands
PlacesOf(line) == { i \in 1..Len(agenda) : agenda[i] = line }

\* the place of a line that stands in the agenda once
PlaceOf(line) == CHOOSE i \in 1..Len(agenda) : agenda[i] = line

SectionHeaders == << "1. ACADEMIC PERFORMANCE", "2. BEHAVIORAL & SOCIAL DEVELOPMENT",
                     "3. GOALS & ACTION PLAN", "OVERALL RECOMMENDATION:" >>

\* the lines of section n: those after its header, up to the empty line that
\* stands before the next header
SectionLines(n) ==
    SubSeq(agenda, PlaceOf(SectionHeaders[n]) + 1, PlaceOf(SectionHeaders[n + 1]) - 2)

PriorityMarkers == {HighMarker, MediumMarker, LowMarker}

\* the line is an item line of the point d that carries the action marker
CarriesActionMarker(line, d) ==
    \E m \in PriorityMarkers : line = "   " \o m \o " " \o d.title \o ActionMarker

\* the line is an item line of the point d without the action marker
LacksActionMarker(line, d) ==
    \E m \in PriorityMarkers : line = "   " \o m \o " " \o d.title

\* the lines are the item lines of the points of the list, one each, in order
RendersInOrder(lines, points) ==
    /\ Len(lines) = Len(points)
    /\ \A k \in 1..Len(points) :
           /\ points[k].action_required => CarriesActionMarker(lines[k], points[k])
           /\ ~points[k].action_required =>
                  /\ LacksActionMarker(lines[k], points[k])
                  /\ ~CarriesActionMarker(lines[k], points[k])

(***************************************************************************)
(* C23. In the agenda each of the four headers stands once, in order;      *)
(* section 1 holds the item lines of the academic bucket, section 2 those  *)
(* of the behavioral bucket followed by those of the social bucket,        *)
(* section 3 those of the goals bucket followed by those of the            *)
(* recommendations bucket, one line for each point and in bucket order;    *)
(* the three sections together hold total_talking_points lines, and a      *)
(* line carries the action marker if and only if its point requires        *)
(* action.                                                                 *)
(***************************************************************************)
C23_AgendaRendersEveryPoint ==
    Formatted =>
        LET buckets == result.talking_points_by_category
        IN  /\ \A n \in 1..4 : Cardinality(PlacesOf(SectionHeaders[n])) = 1
            /\ \A n \in 1..3 : PlaceOf(SectionHeaders[n]) < PlaceOf(SectionHeaders[n + 1])
            /\ RendersInOrder(SectionLines(1), buckets["academic"])
            /\ RendersInOrder(SectionLines(2), buckets["behavioral"] \o buckets["social"])
            /\ RendersInOrder(SectionLines(3), buckets["goals"] \o buckets["recommendations"])
            /\ Len(SectionLines(1)) + Len(SectionLines(2)) + Len(SectionLines(3))
                   = result.meeting_summary.total_talking_points

\* an agenda for an output in which every bucket holds a point and the
\* behavioral and the social bucket hold two each
C23_Witness ==
    /\ Formatted
    /\ \A c \in FiveCategories : result.talking_points_by_category[c] # << >>
    /\ Len(result.talking_points_by_category["behavioral"]) >= 2
    /\ Len(result.talking_points_by_category["social"]) >= 2
    /\ \E k \in 1..Len(result.talking_points_by_category["behavioral"]) :
           CarriesActionMarker(SectionLines(2)[k], result.talking_points_by_category["behavioral"][k])

\* the dicts of the points of seq that are of category c, in the order of seq
PartitionOf(seq, c) ==
    LET chosen == SelectSeq(seq, LAMBDA p : p.category = c)
    IN  [ i \in 1..Len(chosen) |-> DictOf(chosen[i]) ]

\* seq sorted by priority rank, points of equal rank in the order of seq
StableSortByRank(seq) ==
    SelectSeq(seq, LAMBDA p : Rank(p.priority) = 0)
    \o SelectSeq(seq, LAMBDA p : Rank(p.priority) = 1)
    \o SelectSeq(seq, LAMBDA p : Rank(p.priority) = 2)

(***************************************************************************)
(* C24. Each of the five buckets that the engine builds (stable sort of    *)
(* the whole list, then partition by category) is the list got the other   *)
(* way round: the points of that category taken from the evaluator         *)
(* concatenation, then stably sorted by priority rank.                     *)
(***************************************************************************)
C24_SortAndPartitionCommute ==
    Grouped =>
        \A c \in FiveCategories :
            categorized_points[c] = StableSortByRank(PartitionOf(Concatenation, c))

\* an output with a bucket whose points the evaluators did not emit in the
\* order of their ranks, and which holds two points of one rank
C24_Witness ==
    /\ Returned
    /\ \E c \in FiveCategories :
           LET bucket == result.talking_points_by_category[c]
           IN  /\ bucket # PartitionOf(Concatenation, c)
               /\ \E i, j \in 1..Len(bucket) : i # j /\ bucket[i].priority = bucket[j].priority

\* the titles of the GPA points of the list
GPAPointTitles == { p.title : p \in GPAPoints }

(***************************************************************************)
(* C25. Whenever the overall recommendation is the excellent-work message, *)
(* currentGPA is below 3.5 and the GPA point is 'Solid Academic            *)
(* Performance'; so, for every grade and for the fallback, the message is  *)
(* never given next to an 'Excellent Academic Performance' point, and      *)
(* never to a profile whose currentGPA is 3.5 or more.                     *)
(***************************************************************************)
C25_ExcellentWorkMeansSolid ==
    Summarized =>
        /\ Recommendation = ExcellentWorkMessage(FirstName) =>
               /\ GPAOrZero < 350
               /\ GPAPointTitles = {"Solid Academic Performance"}
        /\ GPAOrZero >= 350 => Recommendation # ExcellentWorkMessage(FirstName)
        /\ "Excellent Academic Performance" \in GPAPointTitles =>
               Recommendation # ExcellentWorkMessage(FirstName)

\* the excellent-work message for a grade-3 profile with a GPA of 3.49, just
\* under the grade's gpa_excellent
C25_Witness ==
    /\ Returned
    /\ result.meeting_summary.overall_recommendation = ExcellentWorkMessage(FirstName)
    /\ student_data.personalInfo.grade = "3"
    /\ GPAOrZero = 349
    /\ HasTitle(result.talking_points_by_category["academic"], "Solid Academic Performance")

(***************************************************************************)
(* C26. Whenever the overall recommendation is the performing-well         *)
(* (continue-strategies) message or the excellent-work message, the list   *)
(* holds no 'Academic Support Needed' point.                               *)
(***************************************************************************)
C26_NoSupportNeededWithPraise ==
    Summarized =>
        (Recommendation \in {PerformingWellMessage(FirstName), ExcellentWorkMessage(FirstName)}
            => ~HasTitle(all_talking_points, "Academic Support Needed"))

\* the performing-well message for a grade-6 profile with a GPA of 3.5, which
\* is above the grade's gpa_good (3.3) and at the 3.5 of the ladder
C26_Witness ==
    /\ Returned
    /\ result.meeting_summary.overall_recommendation = PerformingWellMessage(FirstName)
    /\ student_data.personalInfo.grade = "6"
    /\ GPAOrZero = 350
    /\ ~HasTitle(all_talking_points, "Academic Support Needed")

\* the elements of the sequence, in a set
RangeOf(seq) == { seq[i] : i \in 1..Len(seq) }

(***************************************************************************)
(* C27. meeting_summary.high_priority_items minus the number of points     *)
(* that are both high-priority and action-required is 0 or 1, and it is 1  *)
(* exactly when the list holds the 'Excellent Academic Performance' point, *)
(* which is the only high-priority point that requires no action.          *)
(***************************************************************************)
C27_HighPriorityGap ==
    Summarized =>
        LET gap == meeting_summary.high_priority_items - HighActionCount
        IN  /\ gap \in {0, 1}
            /\ gap = 1 <=> HasTitle(all_talking_points, "Excellent Academic Performance")
            /\ \A p \in RangeOf(all_talking_points) :
                   (p.priority = "high" /\ ~p.action_required) =>
                       p.title = "Excellent Academic Performance"

\* an output with high_priority_items = 3 whose recommendation is not the
\* multi-area-intervention message
C27_Witness ==
    /\ Returned
    /\ result.meeting_summary.high_priority_items = 3
    /\ HighActionCount = 2
    /\ result.meeting_summary.overall_recommendation # MultiAreaMessage(FirstName)

(***************************************************************************)
(* C28. No talking point is both low-priority and action-required; every   *)
(* element of action_items is of high or medium priority; and the points   *)
(* that are neither in action_items nor in strengths_to_celebrate are the  *)
(* low-priority points and the 'Excellent Academic Performance' point.     *)
(***************************************************************************)
C28_NoLowPriorityAction ==
    /\ \A p \in RangeOf(all_talking_points) : ~(p.priority = "low" /\ p.action_required)
    /\ Returned =>
           /\ \A p \in RangeOf(result.action_items) : p.priority \in {"high", "medium"}
           /\ \A p \in RangeOf(all_talking_points) :
                  (p \notin RangeOf(result.action_items)
                   /\ p \notin RangeOf(result.strengths_to_celebrate))
                  <=> (p.priority = "low" \/ p.title = "Excellent Academic Performance")

\* an output with an 'Excellent Academic Performance' point and a low-priority
\* point, both in neither list, next to points of both lists
C28_Witness ==
    /\ Returned
    /\ HasTitle(all_talking_points, "Excellent Academic Performance")
    /\ HasTitle(all_talking_points, "Extracurricular Opportunities")
    /\ ~HasTitle(result.action_items, "Extracurricular Opportunities")
    /\ ~HasTitle(result.strengths_to_celebrate, "Excellent Academic Performance")
    /\ result.action_items # << >>
    /\ result.strengths_to_celebrate # << >>

BehavioralBucketTitles == {"Excellent Class Participation", "Encouraging Participation",
                           "Excellent Attendance", "Attendance Concerns", "Punctuality"}

SocialSkillsTitles == {"Strong Social Skills", "Social Skills Development"}

ExtracurricularTitles == {"Well-Rounded Engagement", "Extracurricular Opportunities",
                          "Recognition and Achievements", "Community Service"}

(***************************************************************************)
(* C29. In every output every point of the recommendations bucket is       *)
(* high-priority and action-required, no point of the social bucket is     *)
(* high-priority, every point of the social bucket is the behavioral       *)
(* evaluator's social-skills point or a point of the extracurricular       *)
(* evaluator, and the behavioral bucket holds only participation,          *)
(* attendance and punctuality points.                                      *)
(***************************************************************************)
C29_BucketContents ==
    Returned =>
        LET buckets == result.talking_points_by_category
        IN  /\ \A d \in RangeOf(buckets["recommendations"]) :
                   d.priority = "high" /\ d.action_required
            /\ \A d \in RangeOf(buckets["social"]) :
                   /\ d.priority # "high"
                   /\ d.title \in SocialSkillsTitles \cup ExtracurricularTitles
            /\ \A d \in RangeOf(buckets["behavioral"]) : d.title \in BehavioralBucketTitles

\* an output whose social bucket holds the social-skills point of the behavioral
\* evaluator and points of the extracurricular evaluator
C29_Witness ==
    /\ Returned
    /\ \E d \in RangeOf(result.talking_points_by_category["social"]) : d.title \in SocialSkillsTitles
    /\ \E d \in RangeOf(result.talking_points_by_category["social"]) : d.title \in ExtracurricularTitles
    /\ result.talking_points_by_category["behavioral"] # << >>
    /\ Len(result.talking_points_by_category["recommendations"]) = 2

\* how many points of the list stand in the slots from..to of the documented order
CountInSlots(from, to) ==
    Cardinality(Positions(all_talking_points, LAMBDA p : SlotOf(p) \in from..to))

(***************************************************************************)
(* C30. For every profile with firstName, lastName and grade the call      *)
(* returns in the end, and once the points are counted,                    *)
(* 1 <= total_talking_points <= 17 + (number of subjects): there is        *)
(* exactly one GPA point, so the academic bucket is not empty, at most one *)
(* point for each subject, and at most 2 further academic points, 4        *)
(* behavioral-evaluator points, 3 extracurricular, 3 parent-engagement and *)
(* 4 goals-and-progress points.                                            *)
(***************************************************************************)
C30_TerminatesWithinBounds ==
    /\ [](IdentityPresent => <>Returned)
    /\ [](Summarized =>
             /\ meeting_summary.total_talking_points >= 1
             /\ meeting_summary.total_talking_points <= 17 + Len(SubjectsOf(student_data))
             /\ meeting_summary.total_talking_points = Len(all_talking_points)
             /\ categorized_points["academic"] # << >>
             /\ CountInSlots(1, 1) = 1
             /\ CountInSlots(2, 2) <= Len(SubjectsOf(student_data))
             /\ CountInSlots(3, 4) <= 2
             /\ CountInSlots(5, 8) <= 4
             /\ CountInSlots(9, 11) <= 3
             /\ CountInSlots(12, 14) <= 3
             /\ CountInSlots(15, 18) <= 4
             /\ CountInSlots(1, 18) = Len(all_talking_points))

\* an output of 17 + 2 points for a profile of two subjects
C30_Witness ==
    /\ Returned
    /\ Len(SubjectsOf(student_data)) = 2
    /\ result.meeting_summary.total_talking_points = 19

====
